---- MODULE Spec2Model ----
(***************************************************************************)
(* Prompt resolution of workflow_images/extract_prompt.py: the UIGraph     *)
(* model (nodes, links, reverse-edge index), the sampler resolvers, the    *)
(* forward reachability check and the strategy pipeline of extract_prompts;*)
(* process_png_file and the files it writes; the extract_prompts of         *)
(* workflow_images/extract_prompt_08-28-25-v2.py; and                       *)
(* get_video_frame_counts of get_frame_counts_v2.py.                        *)
(*                                                                         *)
(* Encoding of Python values.                                              *)
(*   A JSON value is a record [t, s]: t = "str" with s its characters,     *)
(*   t = "none" for None / null / a missing key, t = "falsy" for a         *)
(*   non-string value that Python treats as false (0, false, []),          *)
(*   t = "truthy" for a non-string value that is true (7, true, [1]).      *)
(*   t = "raise" marks an exception leaving the evaluated expression.      *)
(*   Node ids are integers; NoneId stands for None, BadId for a value that *)
(*   is not an integer (the string "x"): it equals no node id.             *)
(*   A link entry is [kind, f]: kind = "list" with f its leading fields    *)
(*   <<link id, src, src slot, dst, dst slot>> (UIGraph never reads the    *)
(*   trailing data type), kind = "scalar" for an entry that is not a       *)
(*   sequence.                                                             *)
(***************************************************************************)
EXTENDS Integers, Sequences, FiniteSets, TLC

VARIABLES
    doc,        \* the parsed workflow handed to extract_prompts
    pc,         \* position in extract_prompts / _reaches_output
    order,      \* UIGraph.nodes: key order of the dict (insertion order)
    nodes,      \* UIGraph.nodes: id -> node
    links,      \* UIGraph.links
    in_edge,    \* UIGraph.in_edge: <<dst, dst_slot>> -> src
    sampler,    \* id of the sampler the last resolver call returned
    result,     \* what extract_prompts returned (or that it raised)
    ret,        \* the return statement that produced result
    start_id,   \* _reaches_output: argument
    max_hops,   \* _reaches_output: argument
    seen,       \* _reaches_output: local
    q,          \* _reaches_output: local
    hops,       \* _reaches_output: local
    reached,    \* _reaches_output: its return value ("none" while running)
    arg_nid,    \* read_text_from_node: argument nid
    arg_which,  \* read_text_from_node: argument which ("none" for None)
    text,       \* read_text_from_node: its return value
    earlier,    \* what an earlier call of extract_prompts on doc returned
    arg_node,   \* input_index: argument node
    arg_name,   \* input_index: argument name
    index,      \* input_index: its return value (NoIdx for None)
    other,      \* a second call of extract_prompts, on a document of its own
    variant,    \* process_png_file: which file's function runs ("current", "v2")
    image,      \* the PNG: what its metadata holds under "workflow" / "prompt"
    fs,         \* the output directory: path -> content of the file
    extract_json,       \* process_png_file: argument
    extract_both,       \* process_png_file: argument
    force_overwrite,    \* process_png_file: argument
    output_file,        \* process_png_file: local
    workflow_json_string,   \* process_png_file: local
    specific_prompt,    \* process_png_file: local
    directory,          \* get_video_frame_counts: the files matching *.mp4
    use_ffprobe,        \* get_video_frame_counts: argument
    mp4_files,          \* get_video_frame_counts: the files the loop has yet to visit
    frame_counts_cv2,   \* get_video_frame_counts: local
    discrepancies,      \* get_video_frame_counts: local
    unique_frame_counts \* get_video_frame_counts: its return value

vars == <<doc, pc, order, nodes, links, in_edge, sampler, result, ret,
          start_id, max_hops, seen, q, hops, reached, arg_nid, arg_which, text, earlier,
          arg_node, arg_name, index, other,
          variant, image, fs, extract_json, extract_both, force_overwrite, output_file,
          workflow_json_string, specific_prompt,
          directory, use_ffprobe, mp4_files, frame_counts_cv2, discrepancies,
          unique_frame_counts>>

----------------------------------------------------------------------------
(* Python values *)

NoneId == -1
BadId == -2

None == [t |-> "none", s |-> <<>>]
Falsy == [t |-> "falsy", s |-> <<>>]
Truthy == [t |-> "truthy", s |-> <<>>]
Raise == [t |-> "raise", s |-> <<>>]
Str(cs) == [t |-> "str", s |-> cs]

IsWhite(c) == c = " "

RECURSIVE LStrip(_)
LStrip(cs) == IF cs # <<>> /\ IsWhite(Head(cs)) THEN LStrip(Tail(cs)) ELSE cs

RECURSIVE RStrip(_)
RStrip(cs) ==
    IF cs # <<>> /\ IsWhite(cs[Len(cs)]) THEN RStrip(SubSeq(cs, 1, Len(cs) - 1)) ELSE cs

\* str.strip()
Strip(cs) == RStrip(LStrip(cs))

\* bool(v) for a value
IsTrue(v) == v.t = "truthy" \/ (v.t = "str" /\ v.s # <<>>)

\* _safe_get(lst, idx): idx is the 0-based Python index
_safe_get(lst, idx) == IF Len(lst) > idx THEN lst[idx + 1] ELSE None

\* _norm(s): (s or "").strip() or None
_norm(v) ==
    IF ~IsTrue(v) THEN None
    ELSE IF v.t # "str" THEN Raise
    ELSE IF Strip(v.s) = <<>> THEN None ELSE Str(Strip(v.s))

----------------------------------------------------------------------------
(* Class-level tables of UIGraph *)

KNOWN_POSNEG_SAMPLERS == {"KSampler", "ClownsharKSampler_Beta"}
KNOWN_TEXT_EMBEDS_SAMPLERS == {"WanVideoSampler"}
OUTPUT_TYPES == {"VHS_VideoCombine", "SaveImage", "WanVideoDecode"}
ENCODER_TYPES == {"CLIPTextEncode", "TextEncodeQwenImageEdit", "WanVideoTextEncode"}

\* ENCODER_READERS[node_type](n, w, which)
ENCODER_READERS(node_type, w, which) ==
    IF node_type = "WanVideoTextEncode"
    THEN _norm(IF which = "negative" THEN _safe_get(w, 1) ELSE _safe_get(w, 0))
    ELSE _norm(_safe_get(w, 0))

DEFAULT_MAX_HOPS == 200

----------------------------------------------------------------------------
(* UIGraph.__init__ *)

NoNode == [id |-> NoneId, type |-> "", inputs |-> <<>>, widgets_values |-> <<>>]

RECURSIVE KeyOrder(_, _)
\* key order of {n["id"]: n for n in ns}: first occurrence of each id
KeyOrder(ns, acc) ==
    IF ns = <<>> THEN acc
    ELSE KeyOrder(Tail(ns),
                  IF \E i \in 1..Len(acc) : acc[i] = Head(ns).id
                  THEN acc ELSE Append(acc, Head(ns).id))

\* value of {n["id"]: n for n in ns}[id]: the last node with that id
LastWithId(ns, id) ==
    LET idx == {i \in 1..Len(ns) : ns[i].id = id}
    IN ns[CHOOSE i \in idx : \A j \in idx : j <= i]

NodesDict(ns) == [id \in {ns[i].id : i \in 1..Len(ns)} |-> LastWithId(ns, id)]

\* the body of the try block raises for this entry (L[1], L[3], L[4])
LinkRaisesInInit(L) == L.kind # "list" \/ Len(L.f) < 5

RECURSIVE InEdgeScan(_, _)
\* the loop of lines 80-96: one left-to-right scan, later entries overwrite
InEdgeScan(ls, acc) ==
    IF ls = <<>> THEN acc
    ELSE LET L == Head(ls)
         IN IF LinkRaisesInInit(L) THEN InEdgeScan(Tail(ls), acc)
            ELSE LET k == <<L.f[4], L.f[5]>>
                 IN InEdgeScan(Tail(ls),
                       [x \in DOMAIN acc \cup {k} |-> IF x = k THEN L.f[2] ELSE acc[x]])

EmptyMap == [x \in {} |-> NoneId]

\* the graph object: what __init__ leaves in self
UIGraph(wf) ==
    [order |-> KeyOrder(wf.nodes, <<>>),
     nodes |-> NodesDict(wf.nodes),
     links |-> wf.links,
     in_edge |-> InEdgeScan(wf.links, EmptyMap)]

----------------------------------------------------------------------------
(* UIGraph methods; g is the graph object *)

\* self.nodes.get(nid) or {}
NodeOf(g, nid) == IF nid \in DOMAIN g.nodes THEN g.nodes[nid] ELSE NoNode

\* [n for n in self.nodes.values() if n.get("type") in tset], as ids
find_nodes(g, types) == SelectSeq(g.order, LAMBDA id : g.nodes[id].type \in types)

LastOfType(g, types) ==
    LET ns == find_nodes(g, types) IN IF ns # <<>> THEN ns[Len(ns)] ELSE NoneId
first_node(g, types) ==
    LET ns == find_nodes(g, types) IN IF ns # <<>> THEN ns[1] ELSE NoneId

NoIdx == -1

InputScanLast(inputs, name, at) ==
    LET hit == {i \in 1..Len(inputs) : inputs[i] = name}
    IN IF hit = {} THEN NoIdx ELSE (CHOOSE i \in hit : \A j \in hit : j <= i) - 1 + at
RECURSIVE InputScan(_, _, _)
\* the for loop of lines 247-250 over the inputs from 0-based position `at` on
InputScan(inputs, name, at) ==
    IF inputs = <<>> THEN NoIdx
    ELSE IF Head(inputs) = name THEN at
    ELSE InputScan(Tail(inputs), name, at + 1)

\* input_index(node, name): 0-based index of the first input named name
input_index(node, name) == InputScan(node.inputs, name, 0)

\* src_for(dst_id, dst_slot): self.in_edge.get((dst_id, dst_slot))
src_for(g, dst_id, dst_slot) ==
    IF <<dst_id, dst_slot>> \in DOMAIN g.in_edge THEN g.in_edge[<<dst_id, dst_slot>>]
    ELSE NoneId

ReadTextIgnoringHint(g, nid, which) ==
    IF nid = NoneId THEN None
    ELSE LET n == NodeOf(g, nid)
         IN IF n.type \in ENCODER_TYPES THEN _norm(_safe_get(n.widgets_values, 0))
            ELSE None
ReadTextOfAnyType(g, nid, which) ==
    IF nid = NoneId THEN None
    ELSE LET n == NodeOf(g, nid)
         IN ENCODER_READERS(n.type, n.widgets_values, which)
\* read_text_from_node(nid, which)
read_text_from_node(g, nid, which) ==
    IF nid = NoneId THEN None
    ELSE LET n == NodeOf(g, nid)
         IN IF n.type \in ENCODER_TYPES
            THEN ENCODER_READERS(n.type, n.widgets_values, which)
            ELSE None

----------------------------------------------------------------------------
(* UIGraph._reaches_output *)

\* building out_by_src raises: L[1] or L[3] fails for some entry (lines 315-316)
OutBySrcRaises(g) ==
    \E i \in 1..Len(g.links) : g.links[i].kind # "list" \/ Len(g.links[i].f) < 4

\* out_by_src.get(nid, []): the destinations of nid's links, in link order
out_by_src(g, nid) ==
    LET sel == SelectSeq(g.links, LAMBDA L : L.f[2] = nid)
    IN [i \in 1..Len(sel) |-> sel[i].f[4]]

IsOutput(g, nid) == NodeOf(g, nid).type \in OUTPUT_TYPES

RECURSIVE ScanDstsUnseen(_, _, _)
ScanDstsUnseen(g, dsts, st) ==
    IF dsts = <<>> \/ st.found THEN st
    ELSE LET dst == Head(dsts)
         IN IF IsOutput(g, dst) THEN [st EXCEPT !.found = TRUE]
            ELSE IF dst \in st.seen THEN ScanDstsUnseen(g, Tail(dsts), st)
            ELSE ScanDstsUnseen(g, Tail(dsts),
                                [seen |-> st.seen \cup {dst},
                                 nxt |-> Append(st.nxt, dst),
                                 found |-> FALSE])
RECURSIVE ScanDstsRevisiting(_, _, _)
ScanDstsRevisiting(g, dsts, st) ==
    IF dsts = <<>> \/ st.found THEN st
    ELSE LET dst == Head(dsts)
         IN IF IsOutput(g, dst) THEN [st EXCEPT !.found = TRUE]
            ELSE ScanDstsRevisiting(g, Tail(dsts),
                                    [seen |-> st.seen \cup {dst},
                                     nxt |-> Append(st.nxt, dst),
                                     found |-> FALSE])
RECURSIVE ScanDsts(_, _, _)
\* the inner for of lines 324-330; st = [seen, nxt, found]
ScanDsts(g, dsts, st) ==
    IF dsts = <<>> \/ st.found THEN st
    ELSE LET dst == Head(dsts)
         IN IF dst \in st.seen THEN ScanDsts(g, Tail(dsts), st)
            ELSE IF IsOutput(g, dst) THEN [st EXCEPT !.found = TRUE]
            ELSE ScanDsts(g, Tail(dsts),
                          [seen |-> st.seen \cup {dst},
                           nxt |-> Append(st.nxt, dst),
                           found |-> FALSE])

RECURSIVE ScanLayer(_, _, _)
\* the for of lines 323-330 over the frontier
ScanLayer(g, frontier, st) ==
    IF frontier = <<>> \/ st.found THEN st
    ELSE ScanLayer(g, Tail(frontier), ScanDsts(g, out_by_src(g, Head(frontier)), st))

BfsStepNoBound(g, st, maxhops) ==
    IF st.q # <<>>
    THEN LET r == ScanLayer(g, st.q, [seen |-> st.seen, nxt |-> <<>>, found |-> FALSE])
         IN IF r.found
            THEN [seen |-> r.seen, q |-> st.q, hops |-> st.hops, reached |-> "true"]
            ELSE [seen |-> r.seen, q |-> r.nxt, hops |-> st.hops + 1, reached |-> "none"]
    ELSE [st EXCEPT !.reached = "false"]
\* one evaluation of the while condition of line 321 and, when it holds, one
\* breadth-first layer; st = [seen, q, hops, reached]
BfsStep(g, st, maxhops) ==
    IF st.q # <<>> /\ st.hops < maxhops
    THEN LET r == ScanLayer(g, st.q, [seen |-> st.seen, nxt |-> <<>>, found |-> FALSE])
         IN IF r.found
            THEN [seen |-> r.seen, q |-> st.q, hops |-> st.hops, reached |-> "true"]
            ELSE [seen |-> r.seen, q |-> r.nxt, hops |-> st.hops + 1, reached |-> "none"]
    ELSE [st EXCEPT !.reached = "false"]

BfsStart(start) == [seen |-> {start}, q |-> <<start>>, hops |-> 0, reached |-> "none"]

RECURSIVE BfsRun(_, _, _)
BfsRun(g, st, maxhops) ==
    IF st.reached # "none" THEN st.reached ELSE BfsRun(g, BfsStep(g, st, maxhops), maxhops)

\* _reaches_output(start_id, max_hops): "true", "false" or "raise"
_reaches_output(g, start, maxhops) ==
    IF OutBySrcRaises(g) THEN "raise" ELSE BfsRun(g, BfsStart(start), maxhops)

----------------------------------------------------------------------------
(* The sampler resolvers; each returns [raised, id] *)

Names(n) == {n.inputs[i] : i \in 1..Len(n.inputs)}

Wired(g, n, name) == src_for(g, n.id, input_index(n, name)) # NoneId

PreferFirst(g, candidates) ==
    IF candidates = <<>> THEN [raised |-> FALSE, id |-> NoneId]
    ELSE IF OutBySrcRaises(g) THEN [raised |-> TRUE, id |-> NoneId]
    ELSE [raised |-> FALSE, id |-> candidates[1]]
PreferLast(g, candidates) ==
    IF candidates = <<>> THEN [raised |-> FALSE, id |-> NoneId]
    ELSE LET r == [i \in 1..Len(candidates) |->
                      _reaches_output(g, candidates[i], DEFAULT_MAX_HOPS)]
             hit == {i \in 1..Len(candidates) : r[i] = "true"}
         IN IF r[1] = "raise" THEN [raised |-> TRUE, id |-> NoneId]
            ELSE IF hit # {}
            THEN [raised |-> FALSE, id |-> candidates[CHOOSE i \in hit : \A j \in hit : i <= j]]
            ELSE [raised |-> FALSE, id |-> candidates[Len(candidates)]]
\* lines 168-179 and 216-227: the first candidate that reaches an output,
\* else the first candidate, else None
PreferReaching(g, candidates) ==
    IF candidates = <<>> THEN [raised |-> FALSE, id |-> NoneId]
    ELSE LET r == [i \in 1..Len(candidates) |->
                      _reaches_output(g, candidates[i], DEFAULT_MAX_HOPS)]
             hit == {i \in 1..Len(candidates) : r[i] = "true"}
         IN IF r[1] = "raise" THEN [raised |-> TRUE, id |-> NoneId]
            ELSE IF hit # {}
            THEN [raised |-> FALSE, id |-> candidates[CHOOSE i \in hit : \A j \in hit : i <= j]]
            ELSE [raised |-> FALSE, id |-> candidates[1]]

PosNegCandidatesBothWired(g) ==
    SelectSeq(g.order, LAMBDA id :
        LET n == g.nodes[id]
        IN /\ n.type \in KNOWN_POSNEG_SAMPLERS
           /\ "positive" \in Names(n) /\ "negative" \in Names(n)
           /\ (Wired(g, n, "positive") /\ Wired(g, n, "negative")))
\* lines 144-166
PosNegCandidates(g) ==
    SelectSeq(g.order, LAMBDA id :
        LET n == g.nodes[id]
        IN /\ n.type \in KNOWN_POSNEG_SAMPLERS
           /\ "positive" \in Names(n) /\ "negative" \in Names(n)
           /\ (Wired(g, n, "positive") \/ Wired(g, n, "negative")))

sampler_with_posneg(g) == PreferReaching(g, PosNegCandidates(g))

TextEmbedsCandidatesByType(g) ==
    SelectSeq(g.order, LAMBDA id : g.nodes[id].type \in KNOWN_TEXT_EMBEDS_SAMPLERS)
\* lines 195-214
TextEmbedsCandidates(g) ==
    SelectSeq(g.order, LAMBDA id :
        LET n == g.nodes[id]
        IN /\ n.type \in KNOWN_TEXT_EMBEDS_SAMPLERS
           /\ "text_embeds" \in Names(n)
           /\ Wired(g, n, "text_embeds"))

sampler_with_text_embeds(g) == PreferReaching(g, TextEmbedsCandidates(g))

----------------------------------------------------------------------------
(* extract_prompts.  A strategy's outcome is [fin, status, positive,        *)
(* negative, ret, sampler]: fin says that extract_prompts is left here      *)
(* (by a return, status "ok", or by an exception, status "raised").         *)

Absent == [status |-> "ok", positive |-> None, negative |-> None]
NoResult == [status |-> "none", positive |-> None, negative |-> None]
Raised == [status |-> "raised", positive |-> None, negative |-> None]

Returns(pos, neg, site, sid) ==
    [fin |-> TRUE, status |-> "ok", positive |-> pos, negative |-> neg,
     ret |-> site, sampler |-> sid]
Raises(sid) ==
    [fin |-> TRUE, status |-> "raised", positive |-> None, negative |-> None,
     ret |-> "raise", sampler |-> sid]
FallsThrough(sid) ==
    [fin |-> FALSE, status |-> "none", positive |-> None, negative |-> None,
     ret |-> "", sampler |-> sid]

\* g.src_for(n["id"], idx) if idx is not None else None
SrcOfInput(g, n, name) ==
    LET idx == input_index(n, name)
    IN IF idx # NoIdx THEN src_for(g, n.id, idx) ELSE NoneId

\* lines 414-424 and 441-448: read both sides behind node n, return when one is found
ReadBothSides(g, n, site, sid) ==
    LET pos == read_text_from_node(g, SrcOfInput(g, n, "positive"), "positive")
        neg == read_text_from_node(g, SrcOfInput(g, n, "negative"), "negative")
    IN IF pos = Raise \/ neg = Raise THEN Raises(sid)
       ELSE IF IsTrue(pos) \/ IsTrue(neg) THEN Returns(pos, neg, site, sid)
       ELSE FallsThrough(sid)

\* (a), lines 410-424
StrategyA(g) ==
    LET sel == sampler_with_posneg(g)
    IN IF sel.raised THEN Raises(NoneId)
       ELSE IF sel.id = NoneId THEN FallsThrough(NoneId)
       ELSE ReadBothSides(g, g.nodes[sel.id], "a", sel.id)

\* if embeds_src: (line 433), embeds_src an id or None
IdIsTrue(id) == id # NoneId /\ id # 0

\* return {"positive": _safe_get(w, 0), "negative": _safe_get(w, 1)}
ReturnsWidgets(n, site, sid) ==
    Returns(_safe_get(n.widgets_values, 0), _safe_get(n.widgets_values, 1), site, sid)

\* (b), lines 426-454
StrategyB(g) ==
    LET sel == sampler_with_text_embeds(g)
    IN IF sel.raised THEN Raises(NoneId)
       ELSE IF sel.id = NoneId THEN FallsThrough(NoneId)
       ELSE LET embeds_src == SrcOfInput(g, g.nodes[sel.id], "text_embeds")
                src_node == NodeOf(g, embeds_src)
            IN IF ~IdIsTrue(embeds_src) THEN FallsThrough(sel.id)
               ELSE IF src_node.type = "WanVideoTextEmbedBridge"
               THEN ReadBothSides(g, src_node, "bridge", sel.id)
               ELSE IF src_node.type = "WanVideoTextEncode"
               THEN ReturnsWidgets(src_node, "embeds_wte", sel.id)
               ELSE FallsThrough(sel.id)

\* (c), lines 456-463
StrategyC(g) ==
    LET wte == first_node(g, {"WanVideoTextEncode"})
    IN IF wte # NoneId THEN ReturnsWidgets(g.nodes[wte], "fallback", NoneId)
       ELSE Returns(None, None, "nothing", NoneId)

\* inputs.get(name) of a flat entry
InputGet(e, name) == IF name \in e.has THEN e.val[name] ELSE None

ApiResultInEntryOrder(entries) ==
    LET hit == {i \in 1..Len(entries) :
                  /\ entries[i].isdict
                  /\ \/ entries[i].class_type = "WanVideoTextEncode"
                     \/ /\ entries[i].class_type = "TextEncodeQwenImageEdit"
                        /\ "prompt" \in entries[i].has}
    IN IF hit = {} THEN Returns(None, None, "api_nothing", NoneId)
       ELSE LET e == entries[CHOOSE i \in hit : \A j \in hit : i <= j]
            IN IF e.class_type = "WanVideoTextEncode"
               THEN Returns(InputGet(e, "positive_prompt"), InputGet(e, "negative_prompt"),
                            "api_wte", NoneId)
               ELSE Returns(e.val["prompt"], None, "api_qwen", NoneId)
\* lines 466-482
ApiResult(entries) ==
    LET wte == {i \in 1..Len(entries) :
                  entries[i].isdict /\ entries[i].class_type = "WanVideoTextEncode"}
        qwen == {i \in 1..Len(entries) :
                  /\ entries[i].isdict
                  /\ entries[i].class_type = "TextEncodeQwenImageEdit"
                  /\ "prompt" \in entries[i].has}
    IN IF wte # {}
       THEN LET e == entries[CHOOSE i \in wte : \A j \in wte : i <= j]
            IN Returns(InputGet(e, "positive_prompt"), InputGet(e, "negative_prompt"),
                       "api_wte", NoneId)
       ELSE IF qwen # {}
       THEN LET e == entries[CHOOSE i \in qwen : \A j \in qwen : i <= j]
            IN Returns(e.val["prompt"], None, "api_qwen", NoneId)
       ELSE Returns(None, None, "api_nothing", NoneId)

G == [order |-> order, nodes |-> nodes, links |-> links, in_edge |-> in_edge]

RECURSIVE RunFrom(_, _)
\* the strategies from stage on, as extract_prompts runs them
RunFrom(g, stage) ==
    LET o == IF stage = "a" THEN StrategyA(g)
             ELSE IF stage = "b" THEN StrategyB(g) ELSE StrategyC(g)
    IN IF o.fin THEN o ELSE RunFrom(g, IF stage = "a" THEN "b" ELSE "c")

\* extract_prompts(workflow) as a function of the document
extract_prompts(wf) ==
    IF wf.shape = "other" THEN Returns(None, None, "notdict", NoneId)
    ELSE IF wf.shape = "api" THEN ApiResult(wf.entries)
    ELSE RunFrom(UIGraph(wf), "a")

----------------------------------------------------------------------------
(* extract_specific_prompt_from_json_data: one string out of the pair *)

\* lines 494-502, o what extract_prompts returned or that it raised
FirstOfPair(o) ==
    IF o.status = "raised" THEN Raise
    ELSE IF IsTrue(o.positive) THEN o.positive
    ELSE IF IsTrue(o.negative) THEN o.negative
    ELSE None

PositiveOfPair(o) ==
    IF o.status = "raised" THEN Raise
    ELSE IF IsTrue(o.positive) THEN o.positive
    ELSE None
extract_specific_prompt_from_json_data(wf) == FirstOfPair(extract_prompts(wf))

----------------------------------------------------------------------------
(* workflow_images/extract_prompt_08-28-25-v2.py: the earlier extract_prompts.*)
(* It reads the links array itself; a link entry of this variant carries its *)
(* sixth field, the data type, as f[6]: CONDITIONING for the type name (a     *)
(* string, equal to no number), a number for a number.                       *)

CONDITIONING == -3

\* "links" in workflow_data
HasLinksKey(wf) == "nolinks" \notin DOMAIN wf

\* "sampler" in n.get("type", "").lower(), over the type names in use
V2SamplerTypes == {"KSampler", "ClownsharKSampler_Beta", "WanVideoSampler"}

\* 1) lines 52-58: the first WanVideoTextEncode, its widgets as they are
V2Strategy1(g) ==
    LET wte == first_node(g, {"WanVideoTextEncode"})
    IN IF wte = NoneId THEN FallsThrough(NoneId)
       ELSE LET w == g.nodes[wte].widgets_values
                pos == IF Len(w) > 0 THEN w[1] ELSE None
                neg == IF Len(w) > 1 THEN w[2] ELSE None
            IN IF ~IsTrue(pos) THEN FallsThrough(NoneId)
               ELSE IF pos.t # "str" THEN Raises(NoneId)
               ELSE IF Strip(pos.s) = <<>> THEN FallsThrough(NoneId)
               ELSE Returns(pos, neg, "v2_wte", NoneId)

\* lines 76-93: does a link leave node id for slot `slot` of a sampler
V2FeedsSampler(g, ls, id, slot) ==
    \E i \in 1..Len(ls) :
        /\ ls[i].f[2] = id
        /\ NodeOf(g, ls[i].f[4]).type \in V2SamplerTypes
        /\ ls[i].f[5] = slot

RECURSIVE V2QwenLoop(_, _, _, _, _)
\* the for loop of lines 69-102 over the remaining TextEncodeQwenImageEdit
\* nodes; the answer is [raised, pos, neg]
V2QwenLoop(g, ls, qwen, pos_prompt, neg_prompt) ==
    IF qwen = <<>> THEN [raised |-> FALSE, pos |-> pos_prompt, neg |-> neg_prompt]
    ELSE LET node == g.nodes[Head(qwen)]
             w == node.widgets_values
             skip == V2QwenLoop(g, ls, Tail(qwen), pos_prompt, neg_prompt)
             fail == [raised |-> TRUE, pos |-> None, neg |-> None]
         IN IF w = <<>> \/ ~IsTrue(w[1]) THEN skip
            ELSE IF w[1].t # "str" THEN fail
            ELSE IF Strip(w[1].s) = <<>> THEN skip
            ELSE IF \E i \in 1..Len(ls) : ls[i].kind # "list" \/ Len(ls[i].f) < 2
            THEN fail
            ELSE IF \E i \in 1..Len(ls) : ls[i].f[2] = node.id /\ Len(ls[i].f) < 5
            THEN fail
            ELSE LET is_positive == V2FeedsSampler(g, ls, node.id, 1)
                     is_negative == V2FeedsSampler(g, ls, node.id, 2)
                 IN IF is_positive /\ ~IsTrue(pos_prompt)
                    THEN V2QwenLoop(g, ls, Tail(qwen), w[1], neg_prompt)
                    ELSE IF is_negative /\ ~IsTrue(neg_prompt)
                    THEN V2QwenLoop(g, ls, Tail(qwen), pos_prompt, w[1])
                    ELSE IF ~IsTrue(pos_prompt) /\ ~IsTrue(neg_prompt)
                    THEN V2QwenLoop(g, ls, Tail(qwen), w[1], neg_prompt)
                    ELSE skip

\* 2) lines 60-105
V2Strategy2(g, wf) ==
    LET qwen_nodes == find_nodes(g, {"TextEncodeQwenImageEdit"})
    IN IF qwen_nodes = <<>> \/ ~HasLinksKey(wf) THEN FallsThrough(NoneId)
       ELSE LET o == V2QwenLoop(g, wf.links, qwen_nodes, None, None)
            IN IF o.raised THEN Raises(NoneId)
               ELSE IF IsTrue(o.pos) \/ IsTrue(o.neg)
               THEN Returns(o.pos, o.neg, "v2_qwen", NoneId)
               ELSE FallsThrough(NoneId)

RECURSIVE V2NextLink(_, _, _)
\* next((l for l in links if l[4] == id and l[5] == slot), None) of lines
\* 111-112: [raised, found, src], src the l[1] of the link found
V2NextLink(ls, id, slot) ==
    IF ls = <<>> THEN [raised |-> FALSE, found |-> FALSE, src |-> NoneId]
    ELSE LET l == Head(ls)
         IN IF l.kind # "list" \/ Len(l.f) < 5
            THEN [raised |-> TRUE, found |-> FALSE, src |-> NoneId]
            ELSE IF l.f[5] # id THEN V2NextLink(Tail(ls), id, slot)
            ELSE IF Len(l.f) < 6 THEN [raised |-> TRUE, found |-> FALSE, src |-> NoneId]
            ELSE IF l.f[6] = slot THEN [raised |-> FALSE, found |-> TRUE, src |-> l.f[2]]
            ELSE V2NextLink(Tail(ls), id, slot)

\* lines 114-118
read_clip_encode_text(g, node_id) ==
    LET n == NodeOf(g, node_id)
    IN IF n.type = "CLIPTextEncode" /\ n.widgets_values # <<>>
       THEN n.widgets_values[1] ELSE None

\* 3) lines 107-124
V2Strategy3(g, wf) ==
    LET bridge == first_node(g, {"WanVideoTextEmbedBridge"})
    IN IF bridge = NoneId \/ ~HasLinksKey(wf) THEN Returns(None, None, "v2_nothing", NoneId)
       ELSE LET pos_link == V2NextLink(wf.links, bridge, 0)
                neg_link == V2NextLink(wf.links, bridge, 1)
            IN IF pos_link.raised \/ neg_link.raised THEN Raises(NoneId)
               ELSE Returns(IF pos_link.found THEN read_clip_encode_text(g, pos_link.src)
                            ELSE None,
                            IF neg_link.found THEN read_clip_encode_text(g, neg_link.src)
                            ELSE None,
                            "v2_bridge", NoneId)

\* extract_prompts of the variant, lines 33-140
v2_extract_prompts(wf) ==
    IF wf.shape = "other" THEN Returns(None, None, "notdict", NoneId)
    ELSE IF wf.shape = "api" THEN ApiResult(wf.entries)
    ELSE LET g == UIGraph(wf)
             s1 == V2Strategy1(g)
             s2 == V2Strategy2(g, wf)
         IN IF s1.fin THEN s1 ELSE IF s2.fin THEN s2 ELSE V2Strategy3(g, wf)

\* lines 142-160 of the variant
v2_extract_specific_prompt_from_json_data(wf) == FirstOfPair(v2_extract_prompts(wf))

----------------------------------------------------------------------------
(* The documents the checks draw from *)

MaxLinks == 3       \* longest free link sequence of an editor document
MaxEdges == 3       \* longest link sequence of a reachability graph
MaxHops == 2        \* largest max_hops handed to _reaches_output on its own

TextA == Str(<<"a">>)
TextB == Str(<<"b">>)
TextPadded == Str(<<" ", "c", " ">>)
TextEmpty == Str(<<>>)
TextBlank == Str(<<" ">>)

Kind(type, inputs, widgets) == [type |-> type, inputs |-> inputs, widgets_values |-> widgets]

KS3 == Kind("KSampler", <<"model", "positive", "negative">>, <<>>)
CL2 == Kind("ClownsharKSampler_Beta", <<"positive", "negative">>, <<>>)
KSDup == Kind("KSampler", <<"positive", "positive", "negative">>, <<>>)
KSPos == Kind("KSampler", <<"model", "positive">>, <<>>)
WVS == Kind("WanVideoSampler", <<"model", "text_embeds">>, <<>>)
WVSBare == Kind("WanVideoSampler", <<"model">>, <<>>)
Bridge == Kind("WanVideoTextEmbedBridge", <<"positive", "negative">>, <<>>)
Clip(w) == Kind("CLIPTextEncode", <<>>, w)
Qwen(w) == Kind("TextEncodeQwenImageEdit", <<>>, w)
Wte(w) == Kind("WanVideoTextEncode", <<>>, w)
Save == Kind("SaveImage", <<"images">>, <<>>)
Decode == Kind("WanVideoDecode", <<"samples">>, <<>>)
Reroute == Kind("Reroute", <<"in">>, <<>>)

ClipA == Clip(<<TextA>>)
ClipB == Clip(<<TextB>>)
WteAB == Wte(<<TextA, TextB>>)

\* encoders with every sort of prompt value
WideEncoders ==
    {Clip(<<t>>) : t \in {TextA, TextPadded, TextBlank, Truthy, Falsy}}
    \cup {Clip(<<>>), Qwen(<<TextB>>)}
    \cup {Wte(w) : w \in {<<TextA, TextB>>, <<TextEmpty, TextB>>, <<TextBlank>>,
                          <<Truthy, TextA>>}}

\* encoders whose prompt values are all strings
TextEncoders ==
    {Clip(<<t>>) : t \in {TextA, TextPadded, TextBlank}}
    \cup {Qwen(<<TextB>>)}
    \cup {Wte(w) : w \in {<<TextA, TextB>>, <<TextEmpty, TextB>>, <<TextBlank, TextEmpty>>}}

Node(id, k) ==
    [id |-> id, type |-> k.type, inputs |-> k.inputs, widgets_values |-> k.widgets_values]

\* the ids of a node array of length n: counting from 1, from 0, or descending
IdSchemes == {"from1", "from0", "down"}
IdAt(scheme, n, i) ==
    IF scheme = "from1" THEN i ELSE IF scheme = "from0" THEN i - 1 ELSE n + 1 - i

MkNodes(kinds, scheme) ==
    [i \in 1..Len(kinds) |-> Node(IdAt(scheme, Len(kinds), i), kinds[i])]

Link(src, dst, slot) == [kind |-> "list", f |-> <<0, src, 0, dst, slot>>]
\* link ids count from 1 along the links array
Numbered(ls) ==
    [i \in 1..Len(ls) |->
        IF ls[i].kind = "list" /\ Len(ls[i].f) >= 1
        THEN [ls[i] EXCEPT !.f[1] = i] ELSE ls[i]]

SamplerTypes == KNOWN_POSNEG_SAMPLERS \cup KNOWN_TEXT_EMBEDS_SAMPLERS
IdsOfType(ns, types) == {ns[i].id : i \in {j \in 1..Len(ns) : ns[j].type \in types}}

\* the nodes an editor would let feed input slot i (0-based i - 1) of node n
Sources(ns, n, i) ==
    LET name == n.inputs[i]
    IN IF n.type \in KNOWN_POSNEG_SAMPLERS \cup {"WanVideoTextEmbedBridge"}
          /\ name \in {"positive", "negative"}
       THEN IdsOfType(ns, ENCODER_TYPES)
       ELSE IF n.type \in KNOWN_TEXT_EMBEDS_SAMPLERS /\ name = "text_embeds"
       THEN IdsOfType(ns, {"WanVideoTextEmbedBridge", "WanVideoTextEncode"})
       ELSE IF n.type \in OUTPUT_TYPES \cup {"Reroute"}
       THEN IdsOfType(ns, SamplerTypes \cup {"Reroute"})
       ELSE {}

\* the input slots of the array, as <<dst, slot, sources>>
RECURSIVE SlotsFrom(_, _, _)
SlotsFrom(ns, p, i) ==
    IF p > Len(ns) THEN <<>>
    ELSE IF i > Len(ns[p].inputs) THEN SlotsFrom(ns, p + 1, 1)
    ELSE IF Sources(ns, ns[p], i) = {} THEN SlotsFrom(ns, p, i + 1)
    ELSE <<[dst |-> ns[p].id, slot |-> i - 1, from |-> Sources(ns, ns[p], i)]>>
         \o SlotsFrom(ns, p, i + 1)

\* every way to wire each slot to at most one of its sources
RECURSIVE Wirings(_)
Wirings(slots) ==
    IF slots = <<>> THEN {<<>>}
    ELSE LET rest == Wirings(Tail(slots))
             h == Head(slots)
         IN rest \cup {<<Link(s, h.dst, h.slot)>> \o r : s \in h.from, r \in rest}

UiDoc(ns, ls) == [shape |-> "ui", nodes |-> ns, links |-> Numbered(ls), entries |-> <<>>]

WiredDocs(kinds, scheme) ==
    LET ns == MkNodes(kinds, scheme)
    IN {UiDoc(ns, ls) : ls \in Wirings(SlotsFrom(ns, 1, 1))}


Seqs2(S) == {<<a, b>> : a \in S, b \in S}

\* one pos/neg sampler and two encoders of any sort
DirectDocs ==
    UNION {WiredDocs(<<s>> \o e, "from1") : s \in {KS3, CL2}, e \in Seqs2(WideEncoders)}

\* the same beside a standalone dual-prompt encoder
DirectFallbackDocs ==
    UNION {WiredDocs(<<s>> \o e \o <<WteAB>>, "down") : s \in {KS3}, e \in Seqs2(TextEncoders)}

\* samplers that declare one of the two names, or one of them twice
PartialDocs ==
    UNION {WiredDocs(<<s>> \o e, sch) :
              s \in {KSPos, KSDup}, e \in Seqs2({ClipA, ClipB}), sch \in {"from1", "from0"}}

BridgeEncoders == {ClipA, Clip(<<TextPadded>>), Clip(<<TextBlank>>), Qwen(<<TextB>>), WteAB}

\* an aggregated-embedding sampler, a bridge and two encoders
BridgeDocs ==
    UNION {WiredDocs(<<Bridge, WVS>> \o e, sch) :
              e \in Seqs2(BridgeEncoders), sch \in IdSchemes}

EmbedsSources == {Wte(<<>>), WteAB, Wte(<<TextEmpty, TextB>>), Wte(<<TextBlank>>), ClipA, Bridge}

\* an aggregated-embedding sampler between two nodes that may feed it
EmbedsDocs ==
    UNION {WiredDocs(<<x, w, y>>, sch) :
              w \in {WVS, WVSBare}, x \in EmbedsSources, y \in EmbedsSources,
              sch \in IdSchemes}

\* two samplers, an encoder, a pass-through node and an output node
SelectionDocs ==
    UNION {WiredDocs(<<c1, c2, WteAB, Reroute, out>>, sch) :
              c1 \in {CL2, WVS}, c2 \in {CL2, WVS}, out \in {Save}, sch \in IdSchemes}

\* a pos/neg sampler beside an aggregated-embedding sampler
MixedDocs ==
    UNION {WiredDocs(<<CL2, e, WVS, t>>, sch) :
              e \in {ClipA, Clip(<<TextBlank>>)}, t \in {WteAB, Bridge}, sch \in IdSchemes}

\* link entries of every sort around nodes 1 (sampler), 2, 3 (encoders), 4 (output)
LinkPool ==
    {Link(2, 1, 1), Link(3, 1, 1), Link(3, 1, 2), Link(1, 4, 0),
     Link(9, 1, 2), Link(BadId, 1, 1), Link(2, BadId, 0),
     [kind |-> "list", f |-> <<7>>],
     [kind |-> "list", f |-> <<0, 1, 0, 4>>],
     [kind |-> "scalar", f |-> <<>>]}

LinkSeqs == UNION {[1..n -> LinkPool] : n \in 0..MaxLinks}

LinkDocs == {UiDoc(MkNodes(<<KS3, ClipA, ClipB, Save>>, "from1"), ls) : ls \in LinkSeqs}

Entry(class_type, has, val) ==
    [isdict |-> TRUE, class_type |-> class_type, has |-> has,
     val |-> [n \in {"positive_prompt", "negative_prompt", "prompt"} |->
                 IF n \in has THEN val[n] ELSE None]]

Vals(p, n, t) == [positive_prompt |-> p, negative_prompt |-> n, prompt |-> t]

FlatEntries ==
    {Entry("WanVideoTextEncode", {"positive_prompt", "negative_prompt"}, Vals(TextA, TextB, None)),
     Entry("WanVideoTextEncode", {"positive_prompt", "negative_prompt"},
           Vals(TextPadded, TextEmpty, None)),
     Entry("WanVideoTextEncode", {}, Vals(None, None, None)),
     Entry("TextEncodeQwenImageEdit", {"prompt"}, Vals(None, None, TextB)),
     Entry("TextEncodeQwenImageEdit", {"prompt"}, Vals(None, None, TextBlank)),
     Entry("TextEncodeQwenImageEdit", {}, Vals(None, None, None)),
     Entry("KSampler", {}, Vals(None, None, None)),
     [Entry("", {}, Vals(None, None, None)) EXCEPT !.isdict = FALSE]}

FlatDocs ==
    {[shape |-> "api", nodes |-> <<>>, links |-> <<>>, entries |-> es] :
        es \in UNION {[1..n -> FlatEntries] : n \in 0..2}}

\* a workflow that is not a dict (a list, null)
OtherDocs == {[shape |-> "other", nodes |-> <<>>, links |-> <<>>, entries |-> <<>>]}

EditorDocs ==
    DirectDocs \cup DirectFallbackDocs \cup PartialDocs \cup BridgeDocs \cup EmbedsDocs
    \cup SelectionDocs \cup MixedDocs \cup LinkDocs

Docs == EditorDocs \cup FlatDocs \cup OtherDocs

----------------------------------------------------------------------------
(* extract_prompts, step by step *)

NoNodes == [x \in {} |-> NoNode]
BfsIdle ==
    /\ start_id = NoneId /\ max_hops = 0 /\ seen = {} /\ q = <<>> /\ hops = 0
    /\ reached = "none"

\* the variables of the operations that are run on their own
pngvars == <<variant, image, fs, extract_json, extract_both, force_overwrite, output_file,
             workflow_json_string, specific_prompt>>
framevars == <<directory, use_ffprobe, mp4_files, frame_counts_cv2, discrepancies,
               unique_frame_counts>>
auxvars == <<arg_node, arg_name, index, other, pngvars, framevars>>

\* no call of input_index on its own is in progress
IndexIdle == arg_node = NoNode /\ arg_name = "" /\ index = NoIdx

EmptyGraph == [order |-> <<>>, nodes |-> [x \in {} |-> NoNode], links |-> <<>>,
               in_edge |-> EmptyMap]

\* there is no second call
NoOther == [doc |-> [shape |-> "other", nodes |-> <<>>, links |-> <<>>, entries |-> <<>>],
            pc |-> "idle", g |-> EmptyGraph,
            result |-> [status |-> "none", positive |-> None, negative |-> None],
            ret |-> ""]

\* the metadata holds neither key (or the file is no image)
NoImage == [meta |-> "none",
            data |-> [shape |-> "other", nodes |-> <<>>, links |-> <<>>, entries |-> <<>>]]
Paths == {"txt", "json"}
\* the content of a file: what kind of text it is, and the prompts or the
\* document that were written into it
Content(kind, pos, neg, data) ==
    [kind |-> kind, positive |-> pos, negative |-> neg, data |-> data]
Missing == Content("missing", None, None, NoImage.data)
\* get_workflow_from_image has not been called
Unread == [meta |-> "unread", data |-> NoImage.data]

\* no call of process_png_file is in progress
PngIdle ==
    /\ variant = "current" /\ image = NoImage /\ fs = [p \in Paths |-> Missing]
    /\ extract_json = FALSE /\ extract_both = FALSE /\ force_overwrite = FALSE
    /\ output_file = "" /\ workflow_json_string = Unread /\ specific_prompt = None

\* get_video_frame_counts has not returned (no list it returns holds -1)
NoList == <<-1>>

\* no call of get_video_frame_counts is in progress
FramesIdle ==
    /\ directory = <<>> /\ use_ffprobe = FALSE /\ mp4_files = <<>>
    /\ frame_counts_cv2 = <<>> /\ discrepancies = 0 /\ unique_frame_counts = NoList

AuxIdle == IndexIdle /\ other = NoOther /\ PngIdle /\ FramesIdle

\* no call of extract_prompts has returned yet
NoCall == [status |-> "none", positive |-> None, negative |-> None, ret |-> ""]

\* no call of read_text_from_node on its own is in progress
ReadIdle == arg_nid = NoneId /\ arg_which = "none" /\ text = None

Init ==
    /\ doc \in Docs
    /\ pc = "start"
    /\ order = <<>> /\ nodes = NoNodes /\ links = <<>> /\ in_edge = EmptyMap
    /\ sampler = NoneId
    /\ result = NoResult
    /\ ret = ""
    /\ BfsIdle
    /\ ReadIdle
    /\ earlier = NoCall
    /\ AuxIdle

Finish(o) ==
    /\ sampler' = o.sampler
    /\ IF o.fin
       THEN /\ result' = [status |-> o.status, positive |-> o.positive, negative |-> o.negative]
            /\ ret' = o.ret
       ELSE UNCHANGED <<result, ret>>

bfsvars == <<start_id, max_hops, seen, q, hops, reached>>
readvars == <<arg_nid, arg_which, text>>
graphvars == <<order, nodes, links, in_edge>>

\* lines 401-403
NotADict ==
    /\ pc = "start" /\ doc.shape = "other"
    /\ Finish(extract_prompts(doc))
    /\ pc' = "done"
    /\ UNCHANGED <<doc, graphvars, bfsvars, readvars, earlier, auxvars>>

\* line 408: g = UIGraph(workflow)
Construct ==
    /\ pc = "start" /\ doc.shape = "ui"
    /\ LET g == UIGraph(doc)
       IN /\ order' = g.order /\ nodes' = g.nodes /\ links' = g.links
          /\ in_edge' = g.in_edge
    /\ pc' = "a"
    /\ UNCHANGED <<doc, sampler, result, ret, bfsvars, readvars, earlier, auxvars>>

TryPosNegAfterOthers ==
    /\ pc = "a"
    /\ Finish(IF StrategyB(G).fin THEN StrategyB(G) ELSE StrategyA(G))
    /\ pc' = IF StrategyB(G).fin \/ StrategyA(G).fin THEN "done" ELSE "b"
    /\ UNCHANGED <<doc, graphvars, bfsvars, readvars, earlier, auxvars>>
\* lines 410-424
TryPosNeg ==
    /\ pc = "a"
    /\ Finish(StrategyA(G))
    /\ pc' = IF StrategyA(G).fin THEN "done" ELSE "b"
    /\ UNCHANGED <<doc, graphvars, bfsvars, readvars, earlier, auxvars>>

TryTextEmbedsDroppingLinks ==
    /\ pc = "b"
    /\ Finish(StrategyB(G))
    /\ pc' = IF StrategyB(G).fin THEN "done" ELSE "c"
    /\ links' = <<>>
    /\ UNCHANGED <<doc, order, nodes, in_edge, bfsvars, readvars, earlier, auxvars>>
\* lines 426-454
TryTextEmbeds ==
    /\ pc = "b"
    /\ Finish(StrategyB(G))
    /\ pc' = IF StrategyB(G).fin THEN "done" ELSE "c"
    /\ UNCHANGED <<doc, graphvars, bfsvars, readvars, earlier, auxvars>>

FallbackConsuming ==
    /\ pc = "c"
    /\ Finish(StrategyC(G))
    /\ pc' = "done"
    /\ doc' = [doc EXCEPT !.nodes = [i \in 1..Len(doc.nodes) |->
                    IF doc.nodes[i].type = "WanVideoTextEncode"
                    THEN [doc.nodes[i] EXCEPT !.widgets_values = <<>>]
                    ELSE doc.nodes[i]]]
    /\ UNCHANGED <<graphvars, bfsvars, readvars, earlier, auxvars>>
\* lines 456-463
Fallback ==
    /\ pc = "c"
    /\ Finish(StrategyC(G))
    /\ pc' = "done"
    /\ UNCHANGED <<doc, graphvars, bfsvars, readvars, earlier, auxvars>>

\* lines 466-482
ApiScan ==
    /\ pc = "start" /\ doc.shape = "api"
    /\ Finish(ApiResult(doc.entries))
    /\ pc' = "done"
    /\ UNCHANGED <<doc, graphvars, bfsvars, readvars, earlier, auxvars>>

Next == NotADict \/ Construct \/ TryPosNeg \/ TryTextEmbeds \/ Fallback \/ ApiScan

Spec == Init /\ [][Next]_vars

----------------------------------------------------------------------------
(* extract_prompts called a second time on the same document.  The function *)
(* assigns to no module-level name, to no class attribute and to nothing in *)
(* the document; every call builds its own UIGraph.                         *)

\* the caller keeps the first result and calls again
CallAgain ==
    /\ pc = "done" /\ earlier = NoCall
    /\ earlier' = [status |-> result.status, positive |-> result.positive,
                   negative |-> result.negative, ret |-> ret]
    /\ pc' = "start"
    /\ order' = <<>> /\ nodes' = NoNodes /\ links' = <<>> /\ in_edge' = EmptyMap
    /\ sampler' = NoneId /\ result' = NoResult /\ ret' = ""
    /\ UNCHANGED <<doc, bfsvars, readvars, auxvars>>

NextTwice == Next \/ CallAgain

SpecTwice == Init /\ [][NextTwice]_vars

----------------------------------------------------------------------------
(* _reaches_output on its own, one breadth-first layer per step *)

ReachIds == {0, 1, 2}
Edge(src, dst) == Link(src, dst, 0)
EdgePool == {Edge(a, b) : a \in ReachIds, b \in ReachIds}
BrokenPool == {[kind |-> "list", f |-> <<7>>], [kind |-> "scalar", f |-> <<>>]}

EdgeSeqs ==
    UNION {[1..n -> EdgePool] : n \in 0..MaxEdges}
    \cup {<<b>> \o e : b \in BrokenPool, e \in {<<>>} \cup {<<x>> : x \in EdgePool}}

\* which of the three nodes are output nodes
OutputSets == {{}, {2}, {0}, {1, 2}}

ReachNodes(outs) ==
    [i \in 1..3 |-> Node(i - 1, IF (i - 1) \in outs THEN Decode ELSE Reroute)]

ReachDocs == {UiDoc(ReachNodes(outs), es) : outs \in OutputSets, es \in EdgeSeqs}

InitReach ==
    /\ doc \in ReachDocs
    /\ pc = "reach"
    /\ order = UIGraph(doc).order /\ nodes = UIGraph(doc).nodes
    /\ links = UIGraph(doc).links /\ in_edge = UIGraph(doc).in_edge
    /\ sampler = NoneId /\ result = NoResult /\ ret = ""
    /\ start_id \in {0, 1}
    /\ max_hops \in 0..MaxHops
    /\ seen = {} /\ q = <<>> /\ hops = 0 /\ reached = "none"
    /\ ReadIdle
    /\ earlier = NoCall
    /\ AuxIdle

\* lines 313-320: build out_by_src, start the search
ReachEnter ==
    /\ pc = "reach"
    /\ IF OutBySrcRaises(G)
       THEN /\ reached' = "raise" /\ pc' = "reach_done"
            /\ UNCHANGED <<seen, q, hops>>
       ELSE /\ seen' = BfsStart(start_id).seen /\ q' = BfsStart(start_id).q
            /\ hops' = BfsStart(start_id).hops
            /\ reached' = "none" /\ pc' = "reach_loop"
    /\ UNCHANGED <<doc, graphvars, sampler, result, ret, start_id, max_hops, readvars, earlier, auxvars>>

\* lines 321-333: the loop test and one layer, or the return
ReachLayer ==
    /\ pc = "reach_loop"
    /\ LET st == BfsStep(G, [seen |-> seen, q |-> q, hops |-> hops, reached |-> reached],
                         max_hops)
       IN /\ seen' = st.seen /\ q' = st.q /\ hops' = st.hops /\ reached' = st.reached
          /\ pc' = IF st.reached # "none" THEN "reach_done" ELSE "reach_loop"
    /\ UNCHANGED <<doc, graphvars, sampler, result, ret, start_id, max_hops, readvars, earlier, auxvars>>

NextReach == ReachEnter \/ ReachLayer

\* a call that has started runs on: the interpreter never abandons the loop
SpecReach == InitReach /\ [][NextReach]_vars /\ WF_vars(NextReach)

----------------------------------------------------------------------------
(* read_text_from_node on its own *)

\* a node that is no encoder and keeps texts in its widgets
Note == Kind("Note", <<>>, <<TextA, TextB>>)

ReadKinds == WideEncoders \cup {KS3, Bridge, Save, Note}

ReadDocs ==
    UNION {{UiDoc(MkNodes(ks, scheme), <<>>) : ks \in Seqs2(ReadKinds)} : scheme \in IdSchemes}

\* ids of nodes, an id no node has, a non-integer id, None
ReadIds == {0, 1, 2, 9, BadId, NoneId}

InitRead ==
    /\ doc \in ReadDocs
    /\ pc = "read"
    /\ order = UIGraph(doc).order /\ nodes = UIGraph(doc).nodes
    /\ links = UIGraph(doc).links /\ in_edge = UIGraph(doc).in_edge
    /\ sampler = NoneId /\ result = NoResult /\ ret = ""
    /\ BfsIdle
    /\ arg_nid \in ReadIds
    /\ arg_which \in {"positive", "negative", "none"}
    /\ text = None
    /\ earlier = NoCall
    /\ AuxIdle

\* lines 285-298: the call and its return value
ReadText ==
    /\ pc = "read"
    /\ text' = read_text_from_node(G, arg_nid, arg_which)
    /\ pc' = "read_done"
    /\ UNCHANGED <<doc, graphvars, sampler, result, ret, bfsvars, arg_nid, arg_which, earlier, auxvars>>

NextRead == ReadText

SpecRead == InitRead /\ [][NextRead]_vars

----------------------------------------------------------------------------
(* input_index on its own *)

MaxInputs == 3      \* most inputs a node declares when input_index runs alone

InputNames == {"model", "positive", "negative"}

IndexNodes ==
    {Node(1, Kind("KSampler", ins, <<>>)) :
        ins \in UNION {[1..n -> InputNames] : n \in 0..MaxInputs}}

EmptyDoc == UiDoc(<<>>, <<>>)

\* no call of extract_prompts is in progress
PipelineIdle ==
    /\ doc = EmptyDoc
    /\ order = <<>> /\ nodes = NoNodes /\ links = <<>> /\ in_edge = EmptyMap
    /\ sampler = NoneId /\ result = NoResult /\ ret = ""
    /\ earlier = NoCall

InitIndex ==
    /\ pc = "index"
    /\ PipelineIdle /\ BfsIdle /\ ReadIdle
    /\ arg_node \in IndexNodes
    /\ arg_name \in {"positive", "negative", "text_embeds"}
    /\ index = NoIdx
    /\ other = NoOther /\ PngIdle /\ FramesIdle

\* lines 247-250: the call and its return value
InputIndex ==
    /\ pc = "index"
    /\ index' = input_index(arg_node, arg_name)
    /\ pc' = "index_done"
    /\ UNCHANGED <<doc, graphvars, sampler, result, ret, bfsvars, readvars, earlier,
                   arg_node, arg_name, other, pngvars, framevars>>

NextIndex == InputIndex

SpecIndex == InitIndex /\ [][NextIndex]_vars

----------------------------------------------------------------------------
(* Two calls of extract_prompts on documents of their own, their steps      *)
(* interleaved.  The first call is the one of Spec; the second keeps its    *)
(* locals (its document, its UIGraph, its result) in `other`.  The calls    *)
(* share the class-level tables only, which nothing assigns to.             *)

PairDocs ==
    OtherDocs
    \cup {d \in FlatDocs : Len(d.entries) = 1 /\ d.entries[1].has # {}}
    \cup {d \in LinkDocs : Len(d.links) <= 1}
    \cup WiredDocs(<<WVS, Wte(<<>>), WteAB>>, "from1")

NewCall(d) == [NoOther EXCEPT !.doc = d, !.pc = "start"]

\* the dict a.update(b) leaves in a
Merged(a, b) ==
    [k \in DOMAIN a \cup DOMAIN b |-> IF k \in DOMAIN b THEN b[k] ELSE a[k]]

Ended(c, o) ==
    [c EXCEPT !.pc = "done", !.ret = o.ret,
              !.result = [status |-> o.status, positive |-> o.positive,
                          negative |-> o.negative]]

StepCallOnSharedIndex(c) ==
    IF c.pc = "start"
    THEN IF c.doc.shape = "ui"
         THEN [c EXCEPT !.pc = "a",
                        !.g = [UIGraph(c.doc) EXCEPT
                                  !.in_edge = Merged(in_edge, UIGraph(c.doc).in_edge)]]
         ELSE Ended(c, extract_prompts(c.doc))
    ELSE LET o == IF c.pc = "a" THEN StrategyA(c.g)
                  ELSE IF c.pc = "b" THEN StrategyB(c.g) ELSE StrategyC(c.g)
         IN IF o.fin THEN Ended(c, o)
            ELSE [c EXCEPT !.pc = IF c.pc = "a" THEN "b" ELSE "c"]
\* one step of a call whose locals are c: lines 401-408, 410-424, 426-454,
\* 456-463 or 465-482
StepCall(c) ==
    IF c.pc = "start"
    THEN IF c.doc.shape = "ui"
         THEN [c EXCEPT !.pc = "a", !.g = UIGraph(c.doc)]
         ELSE Ended(c, extract_prompts(c.doc))
    ELSE LET o == IF c.pc = "a" THEN StrategyA(c.g)
                  ELSE IF c.pc = "b" THEN StrategyB(c.g) ELSE StrategyC(c.g)
         IN IF o.fin THEN Ended(c, o)
            ELSE [c EXCEPT !.pc = IF c.pc = "a" THEN "b" ELSE "c"]

InitPair ==
    /\ doc \in PairDocs
    /\ pc = "start"
    /\ order = <<>> /\ nodes = NoNodes /\ links = <<>> /\ in_edge = EmptyMap
    /\ sampler = NoneId /\ result = NoResult /\ ret = ""
    /\ BfsIdle /\ ReadIdle /\ IndexIdle
    /\ earlier = NoCall
    /\ other \in {NewCall(d) : d \in PairDocs}
    /\ PngIdle /\ FramesIdle

OtherStep ==
    /\ other.pc \in {"start", "a", "b", "c"}
    /\ other' = StepCall(other)
    /\ UNCHANGED <<doc, pc, graphvars, sampler, result, ret, bfsvars, readvars, earlier,
                   arg_node, arg_name, index, pngvars, framevars>>

NextPair == Next \/ OtherStep

SpecPair == InitPair /\ [][NextPair]_vars

----------------------------------------------------------------------------
(* The documents of the 08-28-25-v2 variant, and its extract_prompts on its  *)
(* own                                                                       *)

\* the links with their sixth field
Typed(ls, ty) ==
    [i \in 1..Len(ls) |->
        IF ls[i].kind = "list" /\ Len(ls[i].f) = 5
        THEN [ls[i] EXCEPT !.f = @ \o <<ty>>] ELSE ls[i]]

TypedDoc(d, ty) == [d EXCEPT !.links = Typed(@, ty)]

\* the document without its "links" key
WithoutLinksKey(d) ==
    [shape |-> d.shape, nodes |-> d.nodes, links |-> <<>>, entries |-> d.entries,
     nolinks |-> TRUE]

V2Kinds ==
    {<<ClipA, ClipB, Bridge>>,
     <<Clip(<<TextPadded>>), Clip(<<>>), Bridge>>,
     <<Wte(<<TextBlank, TextB>>), ClipA, ClipB, Bridge>>,
     <<WteAB, ClipA, Bridge>>,
     <<Wte(<<Truthy, TextB>>), Bridge>>,
     <<Qwen(<<TextA>>), Qwen(<<TextB>>), KS3>>,
     <<Qwen(<<TextBlank>>), Qwen(<<TextB>>), KS3>>,
     <<Qwen(<<Truthy>>), KS3>>,
     <<Qwen(<<TextBlank>>), ClipA, ClipB, Bridge>>}

V2LinkPool ==
    {[kind |-> "list", f |-> <<1, 1, 0, 2, 0, CONDITIONING>>],
     [kind |-> "list", f |-> <<2, 1, 0, 2, 2, 0>>],
     [kind |-> "list", f |-> <<3, 1, 0, 2, 2>>],
     [kind |-> "list", f |-> <<4, 1, 0, 2>>],
     [kind |-> "list", f |-> <<5>>],
     [kind |-> "scalar", f |-> <<>>]}

V2Docs ==
    {TypedDoc(d, ty) :
        d \in UNION {WiredDocs(k, s) : k \in V2Kinds, s \in IdSchemes},
        ty \in {CONDITIONING, 0, 1}}
    \cup {WithoutLinksKey(UiDoc(MkNodes(k, "from1"), <<>>)) : k \in V2Kinds}
    \cup {[shape |-> "ui", nodes |-> MkNodes(k, "from1"), links |-> ls, entries |-> <<>>] :
            k \in {<<ClipA, Bridge>>, <<Qwen(<<TextA>>), KS3>>},
            ls \in UNION {[1..n -> V2LinkPool] : n \in 1..2}}
    \cup {d \in FlatDocs : Len(d.entries) <= 1}
    \cup OtherDocs

InitV2 ==
    /\ doc \in V2Docs
    /\ pc = "v2"
    /\ order = <<>> /\ nodes = NoNodes /\ links = <<>> /\ in_edge = EmptyMap
    /\ sampler = NoneId /\ result = NoResult /\ ret = ""
    /\ BfsIdle /\ ReadIdle /\ earlier = NoCall /\ AuxIdle

\* lines 33-140 of the variant: the call and what it returns
ExtractV2 ==
    /\ pc = "v2"
    /\ LET o == v2_extract_prompts(doc)
       IN /\ result' = [status |-> o.status, positive |-> o.positive,
                        negative |-> o.negative]
          /\ ret' = o.ret
    /\ pc' = "v2_done"
    /\ UNCHANGED <<doc, graphvars, sampler, bfsvars, readvars, earlier, auxvars>>

NextV2 == ExtractV2

SpecV2 == InitV2 /\ [][NextV2]_vars

----------------------------------------------------------------------------
(* process_png_file, over any sequence of calls on one image and one output  *)
(* directory.  A file of the directory is its content: Missing, Old (what    *)
(* was there before the first call), Partial (opened for writing, the write  *)
(* not completed) or what a call wrote.  File times are not kept.            *)

Old == Content("old", None, None, NoImage.data)
Partial == Content("partial", None, None, NoImage.data)

PngDocs ==
    PairDocs
    \cup {TypedDoc(d, CONDITIONING) : d \in WiredDocs(<<ClipA, ClipB, Bridge>>, "from1")}

PngImages ==
    {NoImage, [NoImage EXCEPT !.meta = "undecodable"]}
    \cup {[meta |-> "json", data |-> d] : d \in PngDocs}

\* the three branches of lines 516-524
OutputPath(json, both) == IF json \/ both THEN "json" ELSE "txt"

SkipsNothing(files, path, force) == FALSE
\* line 526 (line 179 of the variant, where force is never set)
Skips(files, path, force) == files[path] # Missing /\ ~force

\* open(output_file, 'w') and the write: done, refused by open, or broken off
WriteOutcomes == {"written", "no_open", "partial"}
Written(files, path, content, outcome) ==
    IF outcome = "no_open" THEN files
    ELSE [files EXCEPT ![path] = IF outcome = "partial" THEN Partial ELSE content]

\* the extract_prompts / extract_specific_prompt_from_json_data of the file
\* that runs
PromptsOf(v, wf) == IF v = "v2" THEN v2_extract_prompts(wf) ELSE extract_prompts(wf)
SpecificOf(v, wf) ==
    IF v = "v2" THEN v2_extract_specific_prompt_from_json_data(wf)
    ELSE extract_specific_prompt_from_json_data(wf)

pipevars == <<doc, graphvars, sampler, result, ret, bfsvars, readvars, earlier,
              arg_node, arg_name, index, other, framevars>>

InitPng ==
    /\ pc = "png_idle"
    /\ PipelineIdle /\ BfsIdle /\ ReadIdle /\ IndexIdle /\ other = NoOther /\ FramesIdle
    /\ variant \in {"current", "v2"}
    /\ image \in PngImages
    /\ fs \in [Paths -> {Missing, Old}]
    /\ extract_json = FALSE /\ extract_both = FALSE /\ force_overwrite = FALSE
    /\ output_file = "" /\ workflow_json_string = Unread /\ specific_prompt = None

\* lines 504-530 (162-182 of the variant, which has neither extract_both nor
\* force_overwrite): the call, up to the return for an output that exists
PngEnter ==
    /\ pc = "png_idle"
    /\ \E j \in BOOLEAN, b \in BOOLEAN, f \in BOOLEAN :
          /\ variant = "v2" => (~b /\ ~f)
          /\ extract_json' = j /\ extract_both' = b /\ force_overwrite' = f
          /\ output_file' = OutputPath(j, b)
          /\ pc' = IF Skips(fs, OutputPath(j, b), f) THEN "png_idle" ELSE "png_read"
    /\ workflow_json_string' = Unread /\ specific_prompt' = None
    /\ UNCHANGED <<variant, image, fs, pipevars>>

\* lines 532-535 and 618-619: get_workflow_from_image
PngRead ==
    /\ pc = "png_read"
    /\ workflow_json_string' = image
    /\ pc' = IF image.meta = "none" THEN "png_idle" ELSE "png_process"
    /\ UNCHANGED <<variant, image, fs, extract_json, extract_both, force_overwrite,
                   output_file, specific_prompt, pipevars>>

\* lines 536-617: decode, extract, write
PngProcess ==
    /\ pc = "png_process"
    /\ LET data == workflow_json_string.data
       IN IF workflow_json_string.meta = "undecodable"
          THEN fs' = fs /\ specific_prompt' = specific_prompt
          ELSE IF extract_json
          THEN /\ \E w \in WriteOutcomes :
                     fs' = Written(fs, output_file, Content("workflow", None, None, data), w)
               /\ specific_prompt' = specific_prompt
          ELSE IF extract_both
          THEN LET o == PromptsOf(variant, data)
               IN /\ IF o.status = "raised" THEN fs' = fs
                     ELSE \E w \in WriteOutcomes :
                            fs' = Written(fs, output_file,
                                          Content("prompts", o.positive, o.negative,
                                                  NoImage.data), w)
                  /\ specific_prompt' = specific_prompt
          ELSE LET s == SpecificOf(variant, data)
               IN /\ specific_prompt' = s
                  /\ IF s = Raise \/ ~IsTrue(s) THEN fs' = fs
                     ELSE \E w \in WriteOutcomes :
                            fs' = Written(fs, output_file,
                                          Content("text", s, None, NoImage.data),
                                          IF s.t = "str" \/ w = "no_open" THEN w
                                          ELSE "partial")
    /\ pc' = "png_idle"
    /\ UNCHANGED <<variant, image, extract_json, extract_both, force_overwrite,
                   output_file, workflow_json_string, pipevars>>

NextPng == PngEnter \/ PngRead \/ PngProcess

SpecPng == InitPng /\ [][NextPng]_vars

----------------------------------------------------------------------------
(* get_frame_counts_v2.py: get_video_frame_counts, one file of the directory *)
(* per step.  A directory entry matching *.mp4 is [isfile, opened, count,    *)
(* ffprobe]: whether it is a regular file, whether cv2 opens it, the frame   *)
(* count cv2 reports, and what get_frame_count_ffprobe would return for it   *)
(* ([found, count], found = FALSE for None).  get_frame_counts.py is the     *)
(* same function without ffprobe and without the isfile filter.              *)

MaxFiles == 3       \* most entries of the directory that match *.mp4
MaxCount == 2       \* largest frame count a tool reports

NoProbe == [found |-> FALSE, count |-> 0]
Probes == {NoProbe} \cup {[found |-> TRUE, count |-> n] : n \in 1..MaxCount}

Mp4Entries ==
    {[isfile |-> FALSE, opened |-> FALSE, count |-> 0, ffprobe |-> NoProbe]}
    \cup {[isfile |-> TRUE, opened |-> FALSE, count |-> 0, ffprobe |-> p] : p \in Probes}
    \cup {[isfile |-> TRUE, opened |-> TRUE, count |-> n, ffprobe |-> p] :
             n \in -1..MaxCount, p \in Probes}

AsAppended(xs) == xs
RECURSIVE Ascending(_)
\* sorted(S) of a set of integers
Ascending(S) ==
    IF S = {} THEN <<>>
    ELSE LET m == CHOOSE x \in S : \A y \in S : x <= y
         IN <<m>> \o Ascending(S \ {m})
\* sorted(list(set(frame_counts_cv2))), line 159
SortedUnique(xs) == Ascending({xs[i] : i \in 1..Len(xs)})

InitFrames ==
    /\ pc = "frames"
    /\ PipelineIdle /\ BfsIdle /\ ReadIdle /\ IndexIdle /\ other = NoOther /\ PngIdle
    /\ directory \in UNION {[1..n -> Mp4Entries] : n \in 0..MaxFiles}
    /\ use_ffprobe \in BOOLEAN
    /\ mp4_files = <<>> /\ frame_counts_cv2 = <<>> /\ discrepancies = 0
    /\ unique_frame_counts = NoList

framesrest == <<doc, graphvars, sampler, result, ret, bfsvars, readvars, earlier,
                arg_node, arg_name, index, other, pngvars>>

\* lines 80-98: is ffprobe there, the files of the directory, none of them
FramesEnter ==
    /\ pc = "frames"
    /\ \E is_tool \in BOOLEAN : use_ffprobe' = (use_ffprobe /\ is_tool)
    /\ mp4_files' = SelectSeq(directory, LAMBDA f : f.isfile)
    /\ frame_counts_cv2' = <<>>
    /\ discrepancies' = 0
    /\ IF mp4_files' = <<>>
       THEN unique_frame_counts' = <<>> /\ pc' = "frames_done"
       ELSE unique_frame_counts' = unique_frame_counts /\ pc' = "frames_loop"
    /\ UNCHANGED <<directory, framesrest>>

\* lines 104-147: one pass of the loop
FramesFile ==
    /\ pc = "frames_loop" /\ mp4_files # <<>>
    /\ LET f == Head(mp4_files)
           frame_count_cv2 == IF f.opened THEN f.count ELSE -1
           frame_count_ffprobe == IF use_ffprobe THEN f.ffprobe ELSE NoProbe
       IN /\ frame_counts_cv2' = IF f.opened /\ frame_count_cv2 > 0
                                 THEN Append(frame_counts_cv2, frame_count_cv2)
                                 ELSE frame_counts_cv2
          /\ discrepancies' = IF /\ frame_count_cv2 > 0 /\ use_ffprobe
                                 /\ frame_count_ffprobe.found
                                 /\ frame_count_cv2 # frame_count_ffprobe.count
                              THEN discrepancies + 1 ELSE discrepancies
    /\ mp4_files' = Tail(mp4_files)
    /\ UNCHANGED <<pc, directory, use_ffprobe, unique_frame_counts, framesrest>>

\* lines 150-160: the two returns after the loop
FramesReturn ==
    /\ pc = "frames_loop" /\ mp4_files = <<>>
    /\ unique_frame_counts' = IF frame_counts_cv2 = <<>> THEN <<>>
                              ELSE SortedUnique(frame_counts_cv2)
    /\ pc' = "frames_done"
    /\ UNCHANGED <<directory, use_ffprobe, mp4_files, frame_counts_cv2, discrepancies,
                   framesrest>>

NextFrames == FramesEnter \/ FramesFile \/ FramesReturn

SpecFrames == InitFrames /\ [][NextFrames]_vars

----------------------------------------------------------------------------
(* Vocabulary of the claims, stated on the document itself *)

Returned == pc = "done" /\ result.status = "ok"

\* a link as the editor writes it: at least five fields, integer ids
WellFormedLink(L) ==
    L.kind = "list" /\ Len(L.f) >= 5 /\ L.f[2] # BadId /\ L.f[4] # BadId

WellFormedLinks(d) == \A i \in 1..Len(d.links) : WellFormedLink(d.links[i])

NodeIndices(d, types) == {i \in 1..Len(d.nodes) : d.nodes[i].type \in types}

\* the array index of a node of given id (ids are unique in every document drawn)
IndexOfId(d, id) == CHOOSE i \in 1..Len(d.nodes) : d.nodes[i].id = id

HasId(d, id) == \E i \in 1..Len(d.nodes) : d.nodes[i].id = id

DeclaresOnce(n, name) == Cardinality({i \in 1..Len(n.inputs) : n.inputs[i] = name}) = 1

\* the 0-based slot of an input the node declares once
SlotNamed(n, name) == (CHOOSE i \in 1..Len(n.inputs) : n.inputs[i] = name) - 1

\* the sources of the well-formed links into the input `name` of node n
FeedersOf(d, n, name) ==
    {d.links[i].f[2] : i \in {j \in 1..Len(d.links) :
        /\ WellFormedLink(d.links[j])
        /\ d.links[j].f[4] = n.id
        /\ d.links[j].f[5] = SlotNamed(n, name)}}

IsEncoder(d, id) == HasId(d, id) /\ d.nodes[IndexOfId(d, id)].type \in ENCODER_TYPES

\* the widget value an encoder keeps its prompt in
PromptValue(n, which) ==
    LET at == IF n.type = "WanVideoTextEncode" /\ which = "negative" THEN 2 ELSE 1
    IN IF Len(n.widgets_values) >= at THEN n.widgets_values[at] ELSE None

\* trimmed text, absent when nothing is left
Normalized(v) ==
    IF v.t # "str" THEN None
    ELSE LET ink == {i \in 1..Len(v.s) : v.s[i] # " "}
         IN IF ink = {} THEN None
            ELSE Str(SubSeq(v.s, CHOOSE i \in ink : \A j \in ink : i <= j,
                                 CHOOSE i \in ink : \A j \in ink : j <= i))

\* the normalized text of the encoder of id src, read for side `which`
TextOf(d, src, which) == Normalized(PromptValue(d.nodes[IndexOfId(d, src)], which))

HoldsText(d, src, which) == PromptValue(d.nodes[IndexOfId(d, src)], which).t = "str"

\* the one feeder of an input that exactly one link targets
Feeder(d, n, name) == CHOOSE x \in FeedersOf(d, n, name) : TRUE

\* node n declares both names once, and exactly one link from an encoder that
\* holds a text feeds each of the names in `wired`, none the others
WiredToEncoders(d, n, wired) ==
    /\ DeclaresOnce(n, "positive") /\ DeclaresOnce(n, "negative")
    /\ \A name \in {"positive", "negative"} :
          IF name \in wired
          THEN /\ Cardinality(FeedersOf(d, n, name)) = 1
               /\ IsEncoder(d, Feeder(d, n, name))
               /\ HoldsText(d, Feeder(d, n, name), name)
          ELSE FeedersOf(d, n, name) = {}

Both == {"positive", "negative"}

\* exactly one pos/neg sampler, both inputs wired to two distinct encoders
C1Case(d) ==
    /\ d.shape = "ui" /\ WellFormedLinks(d)
    /\ Cardinality(NodeIndices(d, KNOWN_POSNEG_SAMPLERS)) = 1
    /\ LET n == d.nodes[CHOOSE i \in NodeIndices(d, KNOWN_POSNEG_SAMPLERS) : TRUE]
       IN /\ WiredToEncoders(d, n, Both)
          /\ Feeder(d, n, "positive") # Feeder(d, n, "negative")

C1Sampler(d) == d.nodes[CHOOSE i \in NodeIndices(d, KNOWN_POSNEG_SAMPLERS) : TRUE]
C1Positive(d) == TextOf(d, Feeder(d, C1Sampler(d), "positive"), "positive")
C1Negative(d) == TextOf(d, Feeder(d, C1Sampler(d), "negative"), "negative")

\* C1 as stated: with exactly one allow-listed pos/neg sampler whose two inputs
\* are wired to two distinct encoders, extract_prompts returns the two encoders'
\* normalized texts and nothing else.  (The returned values are compared after
\* normalization, so that only a text from another place refutes the statement,
\* not the form in which the fallback returns it.)
C1_ReturnsBothTexts ==
    (pc = "done" /\ C1Case(doc)) =>
        /\ result.status = "ok"
        /\ Normalized(result.positive) = C1Positive(doc)
        /\ Normalized(result.negative) = C1Negative(doc)

\* C1 as amended: the same, provided at least one of the two normalized texts
\* is not absent (when both are absent the later strategies decide the result).
C1_ReturnsBothTextsWhenOneFound ==
    (pc = "done" /\ C1Case(doc) /\ (C1Positive(doc) # None \/ C1Negative(doc) # None)) =>
        /\ result.status = "ok" /\ ret = "a"
        /\ result.positive = C1Positive(doc)
        /\ result.negative = C1Negative(doc)

\* C1 witness: a sampler fed by a padded text and by the negative half of a
\* dual-prompt encoder has returned both, trimmed.
C1_Witness ==
    /\ pc = "done" /\ C1Case(doc) /\ ret = "a"
    /\ result.positive = Str(<<"c">>) /\ result.negative = TextB
    /\ \E i \in 1..Len(doc.nodes) : doc.nodes[i].widgets_values = <<TextEmpty, TextB>>

----------------------------------------------------------------------------
(* C2, C3: the choice among several qualifying samplers *)

\* the ids a forward path of one or more well-formed links leads to from id
RECURSIVE Downstream(_, _)
Downstream(d, from) ==
    LET more == from \cup {d.links[i].f[4] : i \in {j \in 1..Len(d.links) :
                              WellFormedLink(d.links[j]) /\ d.links[j].f[2] \in from}}
    IN IF more = from THEN from ELSE Downstream(d, more)

Successors(d, id) ==
    {d.links[i].f[4] : i \in {j \in 1..Len(d.links) :
        WellFormedLink(d.links[j]) /\ d.links[j].f[2] = id}}

FeedsAnOutput(d, id) ==
    \E x \in Downstream(d, Successors(d, id)) :
        HasId(d, x) /\ d.nodes[IndexOfId(d, x)].type \in OUTPUT_TYPES

\* array indices of the nodes of the given types that declare every name in
\* `declared` and have a link into one of the names in `any`
Qualifying(d, types, declared, any) ==
    {i \in NodeIndices(d, types) :
        /\ \A name \in declared : DeclaresOnce(d.nodes[i], name)
        /\ \E name \in any : FeedersOf(d, d.nodes[i], name) # {}}

QualifyingPosNeg(d) == Qualifying(d, KNOWN_POSNEG_SAMPLERS, Both, Both)
QualifyingEmbeds(d) ==
    Qualifying(d, KNOWN_TEXT_EMBEDS_SAMPLERS, {"text_embeds"}, {"text_embeds"})

\* sampler_with_posneg has returned and its result is still in `sampler`
PosNegResolved == pc = "b" \/ (pc = "done" /\ ret = "a")
\* sampler_with_text_embeds has returned and its result is still in `sampler`
EmbedsResolved == pc = "c" \/ (pc = "done" /\ ret \in {"bridge", "embeds_wte"})

ReachingPosNeg(d) == {i \in QualifyingPosNeg(d) : FeedsAnOutput(d, d.nodes[i].id)}

C2Case(d) ==
    /\ d.shape = "ui" /\ WellFormedLinks(d)
    /\ Cardinality(QualifyingPosNeg(d)) = 2
    /\ Cardinality(ReachingPosNeg(d)) = 1

\* C2: of two qualifying pos/neg samplers of which exactly one has a forward
\* path to an output-type node, sampler_with_posneg returns that one, whatever
\* its place in the node order.
C2_SelectsReachable ==
    (PosNegResolved /\ C2Case(doc)) =>
        sampler = doc.nodes[CHOOSE i \in ReachingPosNeg(doc) : TRUE].id

\* C2 witness: the sampler selected is the second of the two in node order and
\* reaches the output node through the pass-through node only.
C2_Witness ==
    /\ PosNegResolved /\ C2Case(doc)
    /\ \E i \in QualifyingPosNeg(doc) : i < (CHOOSE j \in ReachingPosNeg(doc) : TRUE)
    /\ sampler = doc.nodes[CHOOSE j \in ReachingPosNeg(doc) : TRUE].id
    /\ \A x \in Successors(doc, sampler) :
          doc.nodes[IndexOfId(doc, x)].type \notin OUTPUT_TYPES

Least(S) == CHOOSE i \in S : \A j \in S : i <= j

C3Case(d, qualifying) ==
    /\ d.shape = "ui" /\ WellFormedLinks(d)
    /\ Cardinality(qualifying) >= 2
    /\ \A i \in qualifying : ~FeedsAnOutput(d, d.nodes[i].id)

\* C3: with two or more qualifying samplers none of which reaches an output
\* node, each resolver returns the qualifying sampler that comes first in the
\* document's nodes array.
C3_SelectsFirstInOrder ==
    /\ (PosNegResolved /\ C3Case(doc, QualifyingPosNeg(doc))) =>
          sampler = doc.nodes[Least(QualifyingPosNeg(doc))].id
    /\ (EmbedsResolved /\ C3Case(doc, QualifyingEmbeds(doc))) =>
          sampler = doc.nodes[Least(QualifyingEmbeds(doc))].id

\* C3 witness: two aggregated-embedding samplers, neither reaching an output;
\* the one returned is first in the array and has the larger id.
C3_Witness ==
    /\ EmbedsResolved /\ C3Case(doc, QualifyingEmbeds(doc))
    /\ sampler = doc.nodes[Least(QualifyingEmbeds(doc))].id
    /\ \E i \in QualifyingEmbeds(doc) : doc.nodes[i].id < sampler

----------------------------------------------------------------------------
(* C4: a sampler with only its negative input wired *)

C4Case(d) ==
    /\ d.shape = "ui" /\ WellFormedLinks(d)
    /\ Cardinality(NodeIndices(d, KNOWN_POSNEG_SAMPLERS)) = 1
    /\ WiredToEncoders(d, C1Sampler(d), {"negative"})
    /\ TextOf(d, Feeder(d, C1Sampler(d), "negative"), "negative") # None

----------------------------------------------------------------------------
(* C5: the bridge behind an aggregated-embedding sampler *)

TheNode(d, types) == d.nodes[CHOOSE i \in NodeIndices(d, types) : TRUE]

\* one aggregated-embedding sampler, fed by a bridge whose two inputs are wired
\* to encoders; no pos/neg sampler; one of the two texts is not absent
C5Case(d) ==
    /\ d.shape = "ui" /\ WellFormedLinks(d)
    /\ NodeIndices(d, KNOWN_POSNEG_SAMPLERS) = {}
    /\ Cardinality(NodeIndices(d, KNOWN_TEXT_EMBEDS_SAMPLERS)) = 1
    /\ LET s == TheNode(d, KNOWN_TEXT_EMBEDS_SAMPLERS)
       IN /\ DeclaresOnce(s, "text_embeds")
          /\ Cardinality(FeedersOf(d, s, "text_embeds")) = 1
          /\ HasId(d, Feeder(d, s, "text_embeds"))
          /\ LET b == d.nodes[IndexOfId(d, Feeder(d, s, "text_embeds"))]
             IN /\ b.type = "WanVideoTextEmbedBridge"
                /\ WiredToEncoders(d, b, Both)
                /\ \E name \in Both : TextOf(d, Feeder(d, b, name), name) # None

C5Bridge(d) ==
    d.nodes[IndexOfId(d, Feeder(d, TheNode(d, KNOWN_TEXT_EMBEDS_SAMPLERS), "text_embeds"))]

\* C5: behind an aggregated-embedding sampler fed by a bridge, extract_prompts
\* returns the normalized texts of the encoders that feed the bridge's
\* "positive" and "negative" inputs.
C5_BridgeTexts ==
    (pc = "done" /\ C5Case(doc)) =>
        /\ result.status = "ok"
        /\ result.positive =
              TextOf(doc, Feeder(doc, C5Bridge(doc), "positive"), "positive")
        /\ result.negative =
              TextOf(doc, Feeder(doc, C5Bridge(doc), "negative"), "negative")

----------------------------------------------------------------------------
(* C6, C7: what a strategy may return *)

Found(v) ==
    /\ v.t = "str" /\ v.s # <<>>
    /\ v.s[1] # " " /\ v.s[Len(v.s)] # " "

\* C6: each side of the returned pair is absent or a non-empty string without
\* leading or trailing whitespace.
C6_NeverBlank ==
    Returned =>
        /\ result.positive = None \/ Found(result.positive)
        /\ result.negative = None \/ Found(result.negative)

\* C7, by what the caller can observe: when a sampler strategy (direct pos/neg,
\* bridge, dual-prompt encoder behind an aggregated sampler) ends the resolution
\* with both sides absent, the next strategy had nothing to return either (a
\* strategy that finds nothing hands over to the next one).
C7_ReturnsOnlyWhenFound ==
    (Returned /\ ret \in {"a", "bridge", "embeds_wte"}
        /\ result.positive = None /\ result.negative = None) =>
        /\ ~Found(StrategyC(G).positive)
        /\ ~Found(StrategyC(G).negative)

----------------------------------------------------------------------------
(* C8, C9: malformed link entries and the reverse-edge index *)

\* the document without its malformed link entries
Cleaned(d) == [d EXCEPT !.links = SelectSeq(d.links, WellFormedLink)]

Outcome(o) == [status |-> o.status, positive |-> o.positive, negative |-> o.negative]

\* C8: on an editor document with malformed link entries the resolution ends as
\* it ends on the same document with those entries removed: the same pair, and
\* no error that the document without them does not raise.
C8_MalformedLinksSkipped ==
    (pc = "done" /\ doc.shape = "ui" /\ ~WellFormedLinks(doc)) =>
        result = Outcome(extract_prompts(Cleaned(doc)))

WellFormedAt(d, k) ==
    {i \in 1..Len(d.links) :
        WellFormedLink(d.links[i]) /\ <<d.links[i].f[4], d.links[i].f[5]>> = k}

WellFormedKeys(d) ==
    {<<d.links[i].f[4], d.links[i].f[5]>> :
        i \in {j \in 1..Len(d.links) : WellFormedLink(d.links[j])}}

Greatest(S) == CHOOSE i \in S : \A j \in S : j <= i

\* C9: after construction in_edge has exactly the keys that well-formed links
\* target, and src_for gives the source of the last such link.
C9_LastWellFormedLinkWins ==
    (pc = "a") =>
        /\ DOMAIN in_edge = WellFormedKeys(doc)
        /\ \A k \in WellFormedKeys(doc) :
              src_for(G, k[1], k[2]) = doc.links[Greatest(WellFormedAt(doc, k))].f[2]

----------------------------------------------------------------------------
(* C10: termination of _reaches_output *)

\* C10: _reaches_output returns on every graph, cycles and self-loops included;
\* it never runs more than max_hops layers, and a loop test reached with the
\* bound used up returns false, raising nothing.
C10_TerminatesWithinBound ==
    /\ [](hops <= max_hops)
    /\ [][(pc = "reach_loop" /\ hops = max_hops) =>
            (pc' = "reach_done" /\ reached' = "false")]_vars
    /\ <>(pc = "reach_done")

\* C10 witness: on a graph with a self-loop and a cycle through the start node
\* the search has stopped at the bound with nodes still in the frontier.
C10_Witness ==
    /\ pc = "reach_done" /\ reached = "false"
    /\ hops = max_hops /\ max_hops >= 1 /\ q # <<>>
    /\ \E i \in 1..Len(links) : links[i].f[2] = links[i].f[4]
    /\ \E i \in 1..Len(links) : links[i].f[4] = start_id /\ links[i].f[2] # start_id

----------------------------------------------------------------------------
(* C11: what _reaches_output answers *)

RECURSIVE WithinHops(_, _, _)
\* the ids a forward path of 1..k links leads to from start
WithinHops(d, start, k) ==
    IF k = 0 THEN {}
    ELSE LET near == WithinHops(d, start, k - 1)
         IN Successors(d, start) \cup near \cup UNION {Successors(d, x) : x \in near}

OutputWithin(d, start, k) ==
    \E x \in WithinHops(d, start, k) :
        /\ x # start
        /\ HasId(d, x) /\ d.nodes[IndexOfId(d, x)].type \in OUTPUT_TYPES

\* C11: a call of _reaches_output that returns answers true exactly when an
\* output-type node other than the start node lies on a forward path of 1 to
\* max_hops links from the start node; the start node's own type never counts.
C11_ReachesExactly ==
    (pc = "reach_done" /\ reached # "raise") =>
        (reached = "true" <=> OutputWithin(doc, start_id, max_hops))

\* C11 witness: the start node is itself an output node on a cycle, and the
\* answer is true for an output node exactly max_hops = 2 links away.
C11_Witness ==
    /\ pc = "reach_done" /\ reached = "true" /\ max_hops = 2
    /\ doc.nodes[IndexOfId(doc, start_id)].type \in OUTPUT_TYPES
    /\ start_id \in WithinHops(doc, start_id, 2)
    /\ ~OutputWithin(doc, start_id, 1)

----------------------------------------------------------------------------
(* C12: which samplers are candidates in direct pos/neg mode *)

\* the input `name` of node id resolves to a source through input_index and src_for
Resolves(g, id, name) == SrcOfInput(g, g.nodes[id], name) # NoneId

\* allow-listed nodes with a resolving 'positive' or 'negative' input
ResolvingPosNeg(g) ==
    {id \in DOMAIN g.nodes :
        /\ g.nodes[id].type \in KNOWN_POSNEG_SAMPLERS
        /\ (Resolves(g, id, "positive") \/ Resolves(g, id, "negative"))}

\* C12: once sampler_with_posneg has returned, it has selected a sampler exactly
\* when some allow-listed node has a 'positive' or 'negative' input that resolves
\* to a source, and the sampler selected is such a node; a sampler that declares
\* only one of the two names, with it wired, is among them.
C12_QualifiesWithOneInput ==
    (PosNegResolved /\ doc.shape = "ui") =>
        /\ sampler # NoneId <=> ResolvingPosNeg(G) # {}
        /\ sampler # NoneId => sampler \in ResolvingPosNeg(G)

----------------------------------------------------------------------------
(* C13: a document that is not a record *)

\* the outcome that means "no prompt could be determined"
NoPromptDetermined == [status |-> "ok", positive |-> None, negative |-> None]

\* C13: for a document that is not a record the call ends in an outcome the
\* caller can tell apart from the absent/absent pair of a well-shaped document
\* in which no prompt was found.
C13_ShapeErrorDistinct ==
    (pc = "done" /\ doc.shape = "other") => result # NoPromptDetermined

----------------------------------------------------------------------------
(* C14: irregular graph content *)

\* C14: on an editor document with well-formed links the resolution raises
\* nothing, whatever the widget values are (missing, too few, not a text) and
\* whether or not a link's source names a node; each side returned is absent or
\* a text, a value that is not a text being absorbed as absent.
C14_IrregularitiesAbsorbed ==
    (pc = "done" /\ doc.shape = "ui" /\ WellFormedLinks(doc)) =>
        /\ result.status = "ok"
        /\ result.positive.t \in {"none", "str"}
        /\ result.negative.t \in {"none", "str"}

----------------------------------------------------------------------------
(* C15: read_text_from_node where there is nothing to read *)

\* the call is for None, for an id no node has, or for a node whose type has
\* no reader
NothingToRead(d, id) ==
    \/ id = NoneId
    \/ ~HasId(d, id)
    \/ d.nodes[IndexOfId(d, id)].type \notin
          {"CLIPTextEncode", "TextEncodeQwenImageEdit", "WanVideoTextEncode"}

\* C15: read_text_from_node returns absent and raises nothing for a null id,
\* for an id that names no node and for a node whose type has no reader.
C15_UnknownReadsAbsent ==
    (pc = "read_done" /\ NothingToRead(doc, arg_nid)) => text = None

\* C15 witness: the call was for a node of a type without reader that keeps
\* non-blank texts in its widget values, and returned absent.
C15_Witness ==
    /\ pc = "read_done" /\ text = None
    /\ HasId(doc, arg_nid)
    /\ doc.nodes[IndexOfId(doc, arg_nid)].type = "Note"
    /\ doc.nodes[IndexOfId(doc, arg_nid)].widgets_values = <<TextA, TextB>>

----------------------------------------------------------------------------
(* C16, C17: flat documents *)

\* positions of the entries of a class among the entries of a flat document
EntriesOf(d, class_type) ==
    {i \in 1..Len(d.entries) : d.entries[i].isdict /\ d.entries[i].class_type = class_type}

\* the one dual-prompt entry of the document carries both prompt fields
C16Case(d) ==
    /\ d.shape = "api"
    /\ Cardinality(EntriesOf(d, "WanVideoTextEncode")) = 1
    /\ {"positive_prompt", "negative_prompt"} \subseteq
          d.entries[CHOOSE i \in EntriesOf(d, "WanVideoTextEncode") : TRUE].has

C16Entry(d) == d.entries[CHOOSE i \in EntriesOf(d, "WanVideoTextEncode") : TRUE]

\* C16: for a flat document with a dual-prompt entry that has positive_prompt and
\* negative_prompt fields, extract_prompts returns the two fields normalized
\* (trimmed, empty collapsed to absent), from the flat scan and no other strategy.
C16_FlatDualPromptNormalized ==
    (pc = "done" /\ C16Case(doc)) =>
        /\ result.status = "ok" /\ ret = "api_wte"
        /\ result.positive = Normalized(C16Entry(doc).val["positive_prompt"])
        /\ result.negative = Normalized(C16Entry(doc).val["negative_prompt"])

\* the single-prompt editor entries that have a 'prompt' field
PromptEntries(d) ==
    {i \in EntriesOf(d, "TextEncodeQwenImageEdit") : "prompt" \in d.entries[i].has}

FieldOf(e, name) == IF name \in e.has THEN e.val[name] ELSE None

\* C17: on a flat document a dual-prompt entry decides the result wherever it
\* stands among the entries; without one, the first single-prompt editor entry
\* with a 'prompt' field gives positive = that field, negative absent; without
\* either the result is absent/absent.
C17_FlatPrecedence ==
    (pc = "done" /\ doc.shape = "api") =>
        /\ result.status = "ok"
        /\ IF EntriesOf(doc, "WanVideoTextEncode") # {}
           THEN LET e == doc.entries[Least(EntriesOf(doc, "WanVideoTextEncode"))]
                IN /\ result.positive = FieldOf(e, "positive_prompt")
                   /\ result.negative = FieldOf(e, "negative_prompt")
           ELSE IF PromptEntries(doc) # {}
           THEN /\ result.positive = doc.entries[Least(PromptEntries(doc))].val["prompt"]
                /\ result.negative = None
           ELSE result.positive = None /\ result.negative = None

\* C17 witness: a single-prompt editor entry with a prompt comes first, the
\* dual-prompt entry second, and the result is the dual-prompt entry's fields.
C17_Witness ==
    /\ pc = "done" /\ doc.shape = "api" /\ Len(doc.entries) = 2
    /\ 1 \in PromptEntries(doc) /\ doc.entries[1].val["prompt"] = TextB
    /\ 2 \in EntriesOf(doc, "WanVideoTextEncode")
    /\ result = [status |-> "ok", positive |-> TextA, negative |-> TextB]

----------------------------------------------------------------------------
(* C18: the result is a function of the document *)

----------------------------------------------------------------------------
(* C19: the standalone dual-prompt encoder *)

\* the widget value at 0-based position k, absent when there is none
WidgetAt(n, k) == IF Len(n.widgets_values) > k THEN n.widgets_values[k + 1] ELSE None

\* the links that start or end at the node of the given id
LinksAt(d, id) ==
    {i \in 1..Len(d.links) :
        /\ d.links[i].kind = "list" /\ Len(d.links[i].f) >= 5
        /\ (d.links[i].f[2] = id \/ d.links[i].f[4] = id)}

\* C19: when the resolution ends after both sampler strategies have returned
\* nothing, it returns widget values 0 and 1 of the first dual-prompt encoder in
\* node order as positive and negative, wired or not; absent/absent when the
\* graph has no such node.
C19_FirstDualPromptEncoder ==
    (pc = "done" /\ doc.shape = "ui" /\ ret \in {"fallback", "nothing"}) =>
        /\ result.status = "ok"
        /\ IF NodeIndices(doc, {"WanVideoTextEncode"}) # {}
           THEN LET n == doc.nodes[Least(NodeIndices(doc, {"WanVideoTextEncode"}))]
                IN /\ result.positive = WidgetAt(n, 0)
                   /\ result.negative = WidgetAt(n, 1)
           ELSE result.positive = None /\ result.negative = None

\* C19 witness: two dual-prompt encoders with different widget values, neither
\* wired to anything, beside an aggregated-embedding sampler that has no source;
\* the result is the first one's values.
C19_Witness ==
    /\ pc = "done" /\ ret = "fallback"
    /\ NodeIndices(doc, KNOWN_TEXT_EMBEDS_SAMPLERS) # {}
    /\ Cardinality(NodeIndices(doc, {"WanVideoTextEncode"})) = 2
    /\ \A i \in NodeIndices(doc, {"WanVideoTextEncode"}) : LinksAt(doc, doc.nodes[i].id) = {}
    /\ \E i, j \in NodeIndices(doc, {"WanVideoTextEncode"}) :
          doc.nodes[i].widgets_values # doc.nodes[j].widgets_values
    /\ result.positive # None

----------------------------------------------------------------------------
(* C20: which samplers are candidates in aggregated-embedding mode *)

\* some link entry with five fields ends at the first input of node n that
\* is named `name`
HasSource(d, n, name) ==
    /\ \E i \in 1..Len(n.inputs) : n.inputs[i] = name
    /\ \E k \in 1..Len(d.links) :
          /\ d.links[k].kind = "list" /\ Len(d.links[k].f) >= 5
          /\ d.links[k].f[4] = n.id
          /\ d.links[k].f[5] = Least({i \in 1..Len(n.inputs) : n.inputs[i] = name}) - 1

\* C20: the node sampler_with_text_embeds returns, if any, is of the
\* allow-listed type and has a source behind its 'text_embeds' input; a node
\* that does not declare the input, or has nothing wired to it, is not returned.
C20_EmbedsCandidateIsWired ==
    (EmbedsResolved /\ doc.shape = "ui" /\ sampler # NoneId) =>
        /\ HasId(doc, sampler)
        /\ doc.nodes[IndexOfId(doc, sampler)].type \in KNOWN_TEXT_EMBEDS_SAMPLERS
        /\ HasSource(doc, doc.nodes[IndexOfId(doc, sampler)], "text_embeds")

\* C20 witness: of two aggregated-embedding samplers the first in node order has
\* no source behind text_embeds, and the second one was returned.
C20_Witness ==
    /\ EmbedsResolved /\ sampler # NoneId
    /\ Cardinality(NodeIndices(doc, KNOWN_TEXT_EMBEDS_SAMPLERS)) = 2
    /\ ~HasSource(doc, doc.nodes[Least(NodeIndices(doc, KNOWN_TEXT_EMBEDS_SAMPLERS))],
                  "text_embeds")
    /\ IndexOfId(doc, sampler) # Least(NodeIndices(doc, KNOWN_TEXT_EMBEDS_SAMPLERS))

----------------------------------------------------------------------------
(* C21: input_index *)

\* the 1-based positions at which node n declares an input called name
Declared(n, name) == {i \in 1..Len(n.inputs) : n.inputs[i] = name}

\* C21: input_index returns the lowest 0-based position at which the node
\* declares an input of the given name, and absent when it declares none of
\* that name (or no input at all).
C21_FirstDeclaredInput ==
    (pc = "index_done") =>
        IF Declared(arg_node, arg_name) = {} THEN index = NoIdx
        ELSE /\ index + 1 \in Declared(arg_node, arg_name)
             /\ \A i \in Declared(arg_node, arg_name) : index + 1 <= i

\* C21 witness: the name is declared twice, after an input of another name,
\* and the first of the two positions was returned.
C21_Witness ==
    /\ pc = "index_done"
    /\ Declared(arg_node, arg_name) = {2, 3}
    /\ index = 1

----------------------------------------------------------------------------
(* C22: the graph model is read-only *)

\* C22: from construction to the return of extract_prompts the graph object is
\* the one __init__ built from the document (nodes, their order, links and
\* in_edge), whatever resolvers, readers and reachability checks have run, and
\* no step changes the document.
C22_GraphReadOnly ==
    /\ []((doc.shape = "ui" /\ pc \in {"a", "b", "c", "done"}) => G = UIGraph(doc))
    /\ [][doc' = doc]_vars

\* C22 witness: resolution has gone through the sampler resolvers, their
\* reachability checks and the bridge reads on a graph with a non-empty index.
C22_Witness ==
    /\ pc = "done" /\ ret = "bridge"
    /\ G = UIGraph(doc)
    /\ DOMAIN in_edge # {} /\ links # <<>>

----------------------------------------------------------------------------
(* C23: interleaved calls on independent documents *)

\* C23: however the steps of two calls on documents of their own interleave,
\* each call ends as it ends when run alone on its document.
C23_InterleavedCallsIndependent ==
    /\ (pc = "done" /\ other.pc # "idle") => result = Outcome(extract_prompts(doc))
    /\ other.pc = "done" => other.result = Outcome(extract_prompts(other.doc))

\* C23 witness: both calls have ended with different prompts found, the second
\* one having built its graph while the first was at work between construction
\* and return on a graph with the same node ids and a different index.
C23_Witness ==
    /\ pc = "done" /\ other.pc = "done"
    /\ ret = "a" /\ other.ret = "embeds_wte"
    /\ result.positive # other.result.positive
    /\ other.result.positive # None
    /\ DOMAIN in_edge # {} /\ in_edge # other.g.in_edge

----------------------------------------------------------------------------
(* C24: the direct pos/neg sampler comes first *)

\* the normalized text behind input `name` of node n: absent when nothing is
\* wired to it or when its source is no encoder
SideText(d, n, name) ==
    IF FeedersOf(d, n, name) = {} THEN None
    ELSE IF IsEncoder(d, Feeder(d, n, name)) THEN TextOf(d, Feeder(d, n, name), name)
    ELSE None

\* one pos/neg sampler qualifies; each of its two inputs has at most one link,
\* from a node of the graph, and an encoder behind it holds a text or nothing
C24Case(d) ==
    /\ d.shape = "ui" /\ WellFormedLinks(d)
    /\ Cardinality(QualifyingPosNeg(d)) = 1
    /\ LET n == d.nodes[CHOOSE i \in QualifyingPosNeg(d) : TRUE]
       IN \A name \in Both :
             /\ Cardinality(FeedersOf(d, n, name)) <= 1
             /\ \A x \in FeedersOf(d, n, name) :
                   /\ HasId(d, x)
                   /\ IsEncoder(d, x) =>
                         PromptValue(d.nodes[IndexOfId(d, x)], name).t \in {"str", "none"}

C24Sampler(d) == d.nodes[CHOOSE i \in QualifyingPosNeg(d) : TRUE]

\* C24: when the texts behind the selected pos/neg sampler are not both absent,
\* extract_prompts returns exactly that pair from strategy 1, whatever
\* aggregated-embedding samplers, bridges or dual-prompt encoders the graph
\* holds besides.
C24_DirectSamplerFirst ==
    (pc = "done" /\ C24Case(doc)
        /\ (SideText(doc, C24Sampler(doc), "positive") # None
            \/ SideText(doc, C24Sampler(doc), "negative") # None)) =>
        /\ ret = "a"
        /\ result = [status |-> "ok",
                     positive |-> SideText(doc, C24Sampler(doc), "positive"),
                     negative |-> SideText(doc, C24Sampler(doc), "negative")]

\* C24 witness: the graph also holds an aggregated-embedding sampler fed by a
\* dual-prompt encoder with a negative text, and the pos/neg sampler's pair,
\* which has no negative, was returned.
C24_Witness ==
    /\ pc = "done" /\ C24Case(doc) /\ ret = "a"
    /\ QualifyingEmbeds(doc) # {}
    /\ \E i \in NodeIndices(doc, {"WanVideoTextEncode"}) :
          /\ doc.nodes[i].widgets_values = <<TextA, TextB>>
          /\ doc.nodes[i].id \in
                FeedersOf(doc, doc.nodes[CHOOSE j \in QualifyingEmbeds(doc) : TRUE], "text_embeds")
    /\ result.positive # None /\ result.negative = None

----------------------------------------------------------------------------
(* C25: no node is expanded twice *)

Searching == pc \in {"reach_loop", "reach_done"} /\ reached # "raise"

NoDuplicates(s) == \A i, j \in 1..Len(s) : s[i] = s[j] => i = j

\* C25: in _reaches_output every frontier is free of duplicates and lies within
\* the set of nodes seen; a new frontier holds only nodes never seen before, the
\* set of seen nodes never shrinks, and the start node is in no frontier but
\* the first.  So every id enters the frontier at most once.
C25_NoNodeExpandedTwice ==
    /\ [](Searching =>
            /\ NoDuplicates(q)
            /\ \A i \in 1..Len(q) : q[i] \in seen
            /\ hops >= 1 => \A i \in 1..Len(q) : q[i] # start_id)
    /\ [][(pc = "reach_loop" /\ hops' = hops + 1) =>
            /\ seen \subseteq seen'
            /\ \A i \in 1..Len(q') : q'[i] \notin seen]_vars

\* C25 witness: two links lead from the start node to the same node and a link
\* leads back to the start node; the search ran two layers and ended with an
\* empty frontier, each of the two nodes seen once.
C25_Witness ==
    /\ pc = "reach_done" /\ reached = "false" /\ hops = 2 /\ q = <<>>
    /\ Cardinality(seen) = 2
    /\ \E i, j \in 1..Len(links) :
          /\ i # j /\ links[i].f[2] = start_id /\ links[j].f[2] = start_id
          /\ links[i].f[4] = links[j].f[4] /\ links[i].f[4] # start_id
          /\ \E k \in 1..Len(links) :
                links[k].f[2] = links[i].f[4] /\ links[k].f[4] = start_id

----------------------------------------------------------------------------
(* C26: the source of text_embeds, whatever its id *)

\* exactly one aggregated-embedding sampler qualifies, and the one link into
\* its text_embeds input comes from a dual-prompt encoder holding texts
C26Case(d) ==
    /\ d.shape = "ui" /\ WellFormedLinks(d)
    /\ QualifyingPosNeg(d) = {}
    /\ Cardinality(QualifyingEmbeds(d)) = 1
    /\ LET n == d.nodes[CHOOSE i \in QualifyingEmbeds(d) : TRUE]
       IN /\ Cardinality(FeedersOf(d, n, "text_embeds")) = 1
          /\ HasId(d, Feeder(d, n, "text_embeds"))
          /\ d.nodes[IndexOfId(d, Feeder(d, n, "text_embeds"))].type = "WanVideoTextEncode"

C26Source(d) ==
    d.nodes[IndexOfId(d, Feeder(d, d.nodes[CHOOSE i \in QualifyingEmbeds(d) : TRUE],
                                 "text_embeds"))]

\* C26: with an aggregated-embedding sampler selected and a dual-prompt encoder
\* wired to its text_embeds input, extract_prompts ends in the branch that reads
\* that encoder and returns its widget values 0 and 1, whatever the encoder's
\* id is, id 0 included.
C26_SourceWithAnyId ==
    (pc = "done" /\ C26Case(doc)) =>
        /\ ret = "embeds_wte"
        /\ result = [status |-> "ok",
                     positive |-> WidgetAt(C26Source(doc), 0),
                     negative |-> WidgetAt(C26Source(doc), 1)]

----------------------------------------------------------------------------
(* C27: the one string extract_specific_prompt_from_json_data returns *)

\* process_png_file ran in prompt-text mode and the wrapper returned
WrapperReturned ==
    /\ pc = "png_idle" /\ workflow_json_string.meta = "json"
    /\ ~extract_json /\ ~extract_both
    /\ specific_prompt # Raise

\* C27: extract_specific_prompt_from_json_data returns the positive prompt
\* that extract_prompts found, and None when it found no positive prompt.
C27_PositiveOrNone ==
    WrapperReturned =>
        specific_prompt = PositiveOfPair(PromptsOf(variant, workflow_json_string.data))

----------------------------------------------------------------------------
(* C28: process_png_file and the files that are already there *)

\* extract_prompts found no prompt in the decoded document
NoPromptFound ==
    LET o == PromptsOf(variant, workflow_json_string.data)
    IN o.status = "ok" /\ ~IsTrue(o.positive) /\ ~IsTrue(o.negative)

\* C28: no step of process_png_file changes an output file that exists unless
\* the call has force_overwrite set; a call without force_overwrite whose
\* output path exists returns at once, the image unread; and in prompt-text
\* mode a call that finds no prompt leaves the directory as it was.
C28_ExistingOutputKept ==
    [][/\ \A p \in Paths :
             (fs[p] # Missing /\ ~force_overwrite') => fs'[p] = fs[p]
       /\ (pc = "png_idle" /\ fs[output_file'] # Missing /\ ~force_overwrite')
             => (pc' = "png_idle" /\ workflow_json_string' = Unread /\ fs' = fs)
       /\ (/\ pc = "png_process" /\ ~extract_json /\ ~extract_both
           /\ workflow_json_string.meta = "json" /\ NoPromptFound)
             => fs' = fs]_vars

\* a call wrote the prompt file, and a later call without force_overwrite
\* found it and returned without reading the image
C28_Witness ==
    /\ pc = "png_idle" /\ output_file = "txt" /\ ~force_overwrite
    /\ fs["txt"].kind = "text"
    /\ workflow_json_string = Unread

----------------------------------------------------------------------------
(* C29: the bridge strategy of the 08-28-25-v2 variant *)

\* a link entry as the editor writes it: six fields, the last the type name
EditorLink(L) == L.kind = "list" /\ Len(L.f) = 6 /\ L.f[6] = CONDITIONING

\* the sources of the links into input slot `slot` of the node of id `id`
FedBy(d, id, slot) ==
    {d.links[i].f[2] : i \in {j \in 1..Len(d.links) :
        d.links[j].f[4] = id /\ d.links[j].f[5] = slot}}

\* an editor graph with one bridge, each of its input slots 0 and 1 fed by
\* one link from a CLIPTextEncode node, where strategies 1 and 2 fall through
C29Case(d) ==
    /\ d.shape = "ui" /\ HasLinksKey(d)
    /\ \A i \in 1..Len(d.links) : EditorLink(d.links[i])
    /\ Cardinality(NodeIndices(d, {"WanVideoTextEmbedBridge"})) = 1
    /\ ~V2Strategy1(UIGraph(d)).fin /\ ~V2Strategy2(UIGraph(d), d).fin
    /\ \A slot \in {0, 1} :
          LET from == FedBy(d, TheNode(d, {"WanVideoTextEmbedBridge"}).id, slot)
          IN /\ Cardinality(from) = 1
             /\ \A src \in from :
                   HasId(d, src) /\ d.nodes[IndexOfId(d, src)].type = "CLIPTextEncode"

\* the text of the node feeding slot `slot` of the bridge
C29Text(d, slot) ==
    LET src == CHOOSE x \in FedBy(d, TheNode(d, {"WanVideoTextEmbedBridge"}).id, slot) : TRUE
    IN WidgetAt(d.nodes[IndexOfId(d, src)], 0)

\* C29: in the 08-28-25-v2 variant, when strategies 1 and 2 yield nothing and
\* a WanVideoTextEmbedBridge has its input slots 0 and 1 fed by CLIPTextEncode
\* nodes, the result is the text of the node feeding slot 0 as positive and
\* the text of the node feeding slot 1 as negative.
C29_BridgeWiringOfVariant ==
    (pc = "v2_done" /\ C29Case(doc)) =>
        result = [status |-> "ok", positive |-> C29Text(doc, 0),
                  negative |-> C29Text(doc, 1)]

----------------------------------------------------------------------------
(* C30: what get_video_frame_counts returns *)

\* the positive frame counts cv2 reports for the files it opens
PositiveCounts(dir) ==
    {dir[i].count : i \in {j \in 1..Len(dir) : dir[j].opened /\ dir[j].count > 0}}

\* C30: get_video_frame_counts returns a strictly ascending list holding
\* exactly the distinct positive frame counts cv2 reports for the .mp4 files
\* it could open; files that do not open or report a count <= 0 add nothing,
\* what ffprobe reports changes nothing, and the list is empty when no file
\* yields a positive count.
C30_AscendingDistinctCv2Counts ==
    pc = "frames_done" =>
        /\ \A i, j \in 1..Len(unique_frame_counts) :
              i < j => unique_frame_counts[i] < unique_frame_counts[j]
        /\ {unique_frame_counts[i] : i \in 1..Len(unique_frame_counts)}
              = PositiveCounts(directory)

\* two counts returned out of three files, one of them contributing nothing,
\* with ffprobe disagreeing with cv2 on a file
C30_Witness ==
    /\ pc = "frames_done"
    /\ Len(unique_frame_counts) = 2 /\ Len(directory) = 3
    /\ \E i \in 1..3 : ~directory[i].opened \/ directory[i].count <= 0
    /\ use_ffprobe /\ discrepancies > 0

====
